---- MODULE Spec2Model ----
(***************************************************************************)
(* py68k: the device framework around the Musashi 68k engine.              *)
(*                                                                         *)
(* The machine modelled here is the emulator loop (emulator.py), the root  *)
(* device with its interrupt aggregation (device.py), the callback         *)
(* scheduler offered to devices, and the devices that use it: the simple   *)
(* Timer (devices/simple.py), the NE555 ticker (devices/ne555.py), the    *)
(* socket console poller (systemdevices.py) and the counter/timer of the   *)
(* MC68681 (devices/MC68681.py), which has a machine of its own.           *)
(*                                                                         *)
(* The scheduler itself (callback_at/after/every/cancel, the fire-due      *)
(* pass) and assert_ipl/deassert_ipl are called by the devices under src/  *)
(* but their bodies are not part of it; they are modelled from the design  *)
(* document (sections 4.3, 4.4, 4.5) and are marked as such below.         *)
(***************************************************************************)
EXTENDS Integers, Sequences, FiniteSets, TLC

(***************************************************************************)
(* Bounds of the model.                                                    *)
(***************************************************************************)
\* Emulator._quantum, scaled down (the program uses cpu_frequency * 1000)
Quantum == 4
\* args.cycle_limit
CycleLimit == 7
\* args.cycle_limit of the machine with the MC68681
DuartCycleLimit == 6
IrqCycleLimit == 5
MaxRegs == 3
MaxAddr == 2
\* the longest instruction, in cycles
MaxInstr == 2
\* largest value written to the Timer COUNT register
MaxCount == 2
\* NE555Ticker._tick_cycles, scaled down (int(cycle_rate / 100))
TickCycles == 3
\* the console poll interval, scaled down (cycle_rate / 100)
ConsoleCycles == 5
\* MC68681._scaler in the XTAL/16 modes, scaled down (cycle_ratio * 16)
DuartScaler == 1
\* largest value written to the MC68681 CTLR register
MaxReload == 2

(***************************************************************************)
(* Program constants.                                                      *)
(***************************************************************************)
\* RootDevice.tick: the deadline hint when no device asks for less
TickDeadline == 100000
\* Timer._scaler for a 1 MHz machine: int(cycle_rate / 1000000)
Scaler == 1
\* interrupt levels given to the devices at configuration
TimerIPL == 6
TickerIPL == 5
DuartIPL == 2
UartIPL == 2
\* the vector sentinels 0xffffffff and 0xfffffffe, as signed 32-bit values
IRQ_AUTOVECTOR == -1
IRQ_SPURIOUS == -2
\* the interrupt mask in SR after the reset pulse
ResetMask == 7
MEM_READ == 82
MEM_WRITE == 87
MEM_MAP == 77
MEM_SIZE_8 == 8
MEM_SIZE_16 == 16
MEM_SIZE_32 == 32
\* MC68681 register constants
IMR_COUNTER == 8
MODE_MASK == 112
MODE_CTR_XTAL16 == 48
MODE_TMR_XTAL16 == 112
MODE_TMR == 64

Keys == {"count", "tick", "console", "counter/timer"}
VARIABLES
    devices,        \* Device._devices, the devices in registration order
    timer_vector,   \* Timer._r_vector
    uart_cr,        \* UART._cr
    uart_vr,        \* UART._vr
    uart_rxfifo     \* UART._rxfifo

uart_vars == <<uart_cr, uart_vr, uart_rxfifo>>
board_vars == <<devices, timer_vector, uart_vars>>

Devices == devices
DeviceSet == {"uart", "timer", "ticker", "duart"}
Interrupt == [d \in DeviceSet |->
                CASE d = "timer"  -> TimerIPL
                  [] d = "uart"   -> UartIPL
                  [] d = "ticker" -> TickerIPL
                  [] d = "duart"  -> DuartIPL]

NoCb == [cycle |-> 0, period |-> 0]
NoFire == [key |-> "none", cycle |-> 0]
NoAck == [level |-> 0, vector |-> IRQ_SPURIOUS, polled |-> {},
          ipl |-> [d \in DeviceSet |-> 0],
          own |-> [d \in DeviceSet |-> IRQ_SPURIOUS]]

VARIABLES
    elapsed,        \* Emulator._elapsed_cycles
    cpu_initial,    \* engine: cycles granted to the current timeslice
    cpu_remaining,  \* engine: cycles left in the current timeslice
    pc,             \* "tick": in RootDevice.tick, "run": in execute, "dead"
    dead,           \* Emulator._dead
    postmortem,     \* Emulator._postmortem, "exception" for _exception_info
    cpl,            \* the interrupt mask in the CPU's SR
    cycle_limit,    \* Emulator._cycle_limit
    callbacks,      \* the scheduler's pending set, keyed by callback name
    asserted,       \* each device's latched IPL
    irq_level,      \* the level last driven into the CPU by set_irq
    timer_deadline, \* Timer._deadline
    ticker_on,      \* NE555Ticker._ticker_on
    tick_fired,     \* NE555Ticker._tick_fired
    duart_mode,     \* MC68681._mode
    duart_reload,   \* MC68681._reload
    duart_epoch,    \* MC68681._timer_epoch
    duart_cdl,      \* MC68681._counter_deadline has been set
    duart_isr,      \* MC68681._isr
    duart_imr,      \* MC68681._imr
    ack,            \* history: the last interrupt acknowledge
    fired,          \* history: the last handler invocation
    early,          \* history: a handler ran before the clock reached its target
    disorder,       \* history: a handler ran for an earlier target than the one before
    owed,           \* history: entries due when the last quantum returned
    spurious,       \* history: Timer._callback took its 'spurious' branch
    rejected,       \* history: the last schedule request was refused
    cancelled,      \* history: names cancelled and not scheduled again since
    tick_epoch,     \* history: cycle at which callback_every was called
    tick_count      \* history: _tick invocations since tick_epoch

duart_vars == <<duart_mode, duart_reload, duart_epoch, duart_cdl, duart_isr,
                duart_imr>>

cpu_vars == <<cpl, ack>>

VARIABLES
    registers,      \* Register.__registers, a dictionary keyed by Register.key
    reg_made,       \* the descriptors whose constructor returned
    reg_result,     \* how the last constructor or access of the table ended
    reg_called,     \* name of the descriptor whose handler the last access ran
    reg_last        \* the arguments of the last constructor or access

reg_vars == <<registers, reg_made, reg_result, reg_called, reg_last>>

VARIABLE
    miss            \* the last access that found no device or no memory

NoMiss == [kind |-> "none", flip |-> FALSE]

VARIABLE
    resets          \* the reset() calls of the last RESET instruction

NoReset == [done |-> <<>>, raised |-> FALSE]

VARIABLE
    exception_info  \* Emulator._exception_info holds a captured exception

VARIABLES
    elf,            \* the ELF file handed to ELFImage
    elf_out,        \* how the last ELFImage.relocate call ended
    symtab,         \* the symbols of the file's symbol tables, in file order
    symbol_cache,   \* ELFImage._symbol_cache, keyed by address
    address_cache,  \* ELFImage._address_cache, keyed by name
    sym_out,        \* the last query of the symbol store and its answer
    wall_time,      \* time.time(), in ticks
    first_interrupt_time, \* Emulator._first_interrupt_time
    interrupt_count,      \* Emulator._interrupt_count
    presses,        \* history: the times of the SIGINTs delivered so far
    illg,           \* the last illegal-instruction callback and its result
    cf,             \* the CompactFlash device and its backing file
    dev_size,       \* Device._size of a device that maps its registers
    dev_offsets     \* the offsets in that device's _register_name_map

elf_vars == <<elf, elf_out>>
sym_vars == <<symtab, symbol_cache, address_cache, sym_out>>
sigint_vars == <<wall_time, first_interrupt_time, interrupt_count, presses>>
map_vars == <<dev_size, dev_offsets>>

host_vars == <<elf, elf_out, symtab, symbol_cache, address_cache, sym_out, wall_time, first_interrupt_time,
               interrupt_count, presses, illg, cf, dev_size, dev_offsets>>

emu_vars == <<board_vars, exception_info, miss, resets, elapsed, cpu_initial, cpu_remaining, pc, dead, postmortem,
              cpu_vars, cycle_limit, callbacks, asserted, irq_level,
              timer_deadline, ticker_on, tick_fired, duart_vars, fired, early,
              disorder, owed, spurious, rejected, cancelled, tick_epoch,
              tick_count>>

vars == <<host_vars, reg_vars, board_vars, exception_info, miss, resets,
          elapsed, cpu_initial, cpu_remaining, pc, dead, postmortem, cpu_vars,
          cycle_limit, callbacks, asserted,
          irq_level, timer_deadline, ticker_on, tick_fired, duart_vars, fired,
          early, disorder, owed, spurious, rejected, cancelled, tick_epoch,
          tick_count>>

(***************************************************************************)
(* The CPU engine's timeslice accounting.                                  *)
(***************************************************************************)
cycles_run == cpu_initial - cpu_remaining

cycles_remaining == cpu_remaining

\* variant: the elapsed cycles are left out of the clock
current_cycle_no_elapsed == cycles_run

\* Emulator.current_cycle
current_cycle == elapsed + cycles_run

Timeslice == [initial |-> cpu_initial, remaining |-> cpu_remaining]

\* variant: only the cycles left are adjusted, not the cycles granted
modify_timeslice_left_only(ts, cycles) ==
    [initial |-> ts.initial, remaining |-> ts.remaining + cycles]

\* m68k_modify_timeslice adds to the cycles left and to the cycles granted
modify_timeslice(ts, cycles) ==
    [initial |-> ts.initial + cycles, remaining |-> ts.remaining + cycles]

\* a request that leaves the timeslice as it is
end_timeslice_ignored(ts) == ts

\* m68k_end_timeslice
end_timeslice(ts) == [initial |-> ts.remaining, remaining |-> 0]

\* an instruction of n cycles retires
use_cycles(ts, n) == [ts EXCEPT !.remaining = @ - n]

(***************************************************************************)
(* Scheduler.                                                              *)
(***************************************************************************)
Pending(cbs) == {k \in Keys : cbs[k].cycle # 0}

SetMin(S) == CHOOSE x \in S : \A y \in S : x <= y

\* the earliest pending deadline, 0 when nothing is pending
next_deadline(cbs) ==
    IF Pending(cbs) = {} THEN 0
    ELSE SetMin({cbs[k].cycle : k \in Pending(cbs)})

\* what a handler works on: the pending set, the IPL latches, a raised
\* error (rej: raised by the scheduler) and the names under cancellation
Ctx == [cbs |-> callbacks, asserted |-> asserted, err |-> FALSE, rej |-> FALSE,
        cancelled |-> cancelled]

callback_at(m, k, c) ==
    IF c <= current_cycle
    THEN [m EXCEPT !.err = TRUE, !.rej = TRUE]
    ELSE [m EXCEPT !.cbs[k] = [cycle |-> c, period |-> 0],
                   !.cancelled = @ \ {k}]

callback_after(m, k, delta) == callback_at(m, k, current_cycle + delta)

callback_every(m, k, p) ==
    IF p <= 0
    THEN [m EXCEPT !.err = TRUE, !.rej = TRUE]
    ELSE [m EXCEPT !.cbs[k] = [cycle |-> current_cycle + p, period |-> p],
                   !.cancelled = @ \ {k}]

callback_cancel(m, k) ==
    [m EXCEPT !.cbs[k] = NoCb, !.cancelled = @ \cup {k}]

\* deadline coupling: shorten the running timeslice to the earliest deadline
couple_deadline(cbs, ts) ==
    LET d == next_deadline(cbs) IN
    IF d # 0 /\ d - current_cycle < ts.remaining
    THEN modify_timeslice(ts, (d - current_cycle) - ts.remaining)
    ELSE ts

\* entries the fire-due pass may select next: the earliest of the due ones
DueKeys(cbs) == {k \in Pending(cbs) : cbs[k].cycle <= current_cycle}

Selectable(cbs) ==
    {k \in DueKeys(cbs) : \A j \in DueKeys(cbs) : cbs[k].cycle <= cbs[j].cycle}

\* on fire a periodic entry is advanced by its period, a one-shot removed
after_fire(cbs, k) ==
    IF cbs[k].period > 0
    THEN [cbs EXCEPT ![k].cycle = @ + cbs[k].period]
    ELSE [cbs EXCEPT ![k] = NoCb]

(***************************************************************************)
(* Interrupt aggregation.                                                  *)
(***************************************************************************)
assert_ipl(m, d) == [m EXCEPT !.asserted[d] = Interrupt[d]]

deassert_ipl(m, d) == [m EXCEPT !.asserted[d] = 0]

\* Device.get_interrupt of a device that latches its IPL
get_interrupt(asrt, d) == asrt[d]

RECURSIVE ScanIPL(_, _, _)
ScanIPL(asrt, i, ipl) ==
    IF i > Len(Devices) THEN ipl
    ELSE LET dev_ipl == get_interrupt(asrt, Devices[i]) IN
         ScanIPL(asrt, i + 1, IF dev_ipl > ipl THEN dev_ipl ELSE ipl)

\* variant: the level is handed to set_irq only when it rises
check_interrupts_raise_only(asrt) ==
    IF ScanIPL(asrt, 1, 0) > irq_level THEN ScanIPL(asrt, 1, 0) ELSE irq_level

\* RootDevice.check_interrupts: the level handed to set_irq
check_interrupts(asrt) == ScanIPL(asrt, 1, 0)

(***************************************************************************)
(* Device handlers.  A handler works on the record Dev and returns it      *)
(* changed; a raised error stops the handler where it is raised.           *)
(***************************************************************************)
Dev == [m |-> Ctx, deadline |-> timer_deadline, on |-> ticker_on,
        tfired |-> tick_fired, spur |-> FALSE, mode |-> duart_mode,
        reload |-> duart_reload, epoch |-> duart_epoch, cdl |-> duart_cdl,
        isr |-> duart_isr, imr |-> duart_imr, vector |-> timer_vector,
        cr |-> uart_cr, vr |-> uart_vr, rxfifo |-> uart_rxfifo,
        vec |-> IRQ_SPURIOUS,
        polled |-> {}, done |-> <<>>]

\* variant: the stored deadline counts the written value twice
Timer_write_countdown_late(s, value) ==
    IF value = 0
    THEN [s EXCEPT !.m = callback_cancel(deassert_ipl(s.m, "timer"), "count"),
                   !.deadline = 0]
    ELSE LET d == current_cycle + value * Scaler IN
         [s EXCEPT !.m = callback_at(s.m, "count", d),
                   !.deadline = d + value * Scaler]

\* Timer._write_countdown
Timer_write_countdown(s, value) ==
    IF value = 0
    THEN [s EXCEPT !.m = callback_cancel(deassert_ipl(s.m, "timer"), "count"),
                   !.deadline = 0]
    ELSE LET d == current_cycle + value * Scaler IN
         [s EXCEPT !.m = callback_at(s.m, "count", d), !.deadline = d]

\* Timer._write_vector
Timer_write_vector(s, value) == [s EXCEPT !.vector = value]

\* Timer._callback
Timer_callback(s) ==
    IF s.deadline > 0
    THEN IF s.deadline <= current_cycle
         THEN [s EXCEPT !.m = assert_ipl(s.m, "timer"), !.deadline = 0]
         ELSE [s EXCEPT !.m = callback_at(s.m, "count", s.deadline),
                        !.spur = TRUE]
    ELSE s

\* variant: the ticker is switched off but its callback is left pending
NE555_stop_no_cancel(s) == [s EXCEPT !.on = FALSE]

\* NE555Ticker._stop
NE555_stop(s) ==
    [s EXCEPT !.m = callback_cancel(s.m, "tick"), !.on = FALSE]

\* NE555Ticker._start
NE555_start(s) ==
    IF ~s.on
    THEN [s EXCEPT !.m = callback_every(s.m, "tick", TickCycles), !.on = TRUE]
    ELSE s

\* NE555Ticker.access
NE555_access(s, value) ==
    IF value > 0 THEN NE555_start(s) ELSE NE555_stop(s)

\* NE555Ticker._tick
NE555_tick(s) ==
    IF s.on
    THEN [s EXCEPT !.m = assert_ipl(s.m, "ticker"), !.tfired = TRUE]
    ELSE s

\* variant: the poll is not scheduled again
SocketConsole_check_socket_once(s) == s

\* SocketConsole._check_socket (no input waiting on the socket)
SocketConsole_check_socket(s) ==
    [s EXCEPT !.m = callback_after(s.m, "console", ConsoleCycles)]

\* bitwise and of two non-negative integers
RECURSIVE BitAnd(_, _)
BitAnd(x, y) ==
    IF x = 0 \/ y = 0 THEN 0
    ELSE (x % 2) * (y % 2) + 2 * BitAnd(x \div 2, y \div 2)

\* MC68681._update_ipl
Duart_update_ipl(s) ==
    IF BitAnd(s.isr, s.imr) # 0
    THEN [s EXCEPT !.m = assert_ipl(s.m, "duart")]
    ELSE [s EXCEPT !.m = deassert_ipl(s.m, "duart")]

\* bitwise or of two non-negative integers
BitOr(x, y) == x + y - BitAnd(x, y)

\* the masks ~0x03 and -0x30 on the eight bits of the ISR
ISR_NOT_A == 252
ISR_MINUS_B == 208
Ports == {"A", "B"}
\* Channel._update_isr hands over INT_TXRDY, INT_RXRDY_FFULL, both or none
ChannelIsrs == 0..3

\* MC68681.update_channel_isr
Duart_update_channel_isr(s, port, isr) ==
    Duart_update_ipl(
        IF port = "A"
        THEN [s EXCEPT !.isr = BitOr(BitAnd(@, ISR_NOT_A), isr)]
        ELSE IF port = "B"
        THEN [s EXCEPT !.isr = BitOr(BitAnd(@, ISR_MINUS_B), isr * 16)]
        ELSE s)

\* MC68681._mode_is_timer
Duart_mode_is_timer(s) == BitAnd(s.mode, MODE_TMR) # 0

\* MC68681._timer_period
Duart_timer_period(s) == 2 * s.reload * DuartScaler

\* MC68681._read_startcc
Duart_read_startcc(s) ==
    IF ~Duart_mode_is_timer(s)
    THEN LET d == current_cycle + s.reload * DuartScaler IN
         [s EXCEPT !.cdl = TRUE, !.m = callback_at(s.m, "counter/timer", d)]
    ELSE LET d == current_cycle + Duart_timer_period(s) IN
         [s EXCEPT !.epoch = current_cycle,
                   !.m = callback_at(s.m, "counter/timer", d)]

\* variant: the timer-mode branch cancels the pending entry first
Duart_read_stopcc_cancels(s) ==
    LET s1 == Duart_update_ipl(
                  [s EXCEPT !.isr = BitAnd(@, 255 - IMR_COUNTER)])
        s2 == [s1 EXCEPT !.m = callback_cancel(s1.m, "counter/timer")]
        p == Duart_timer_period(s1)
    IN  IF ~Duart_mode_is_timer(s1)
        THEN IF ~s2.cdl THEN [s2 EXCEPT !.m.err = TRUE] ELSE s2
        ELSE IF p = 0
             THEN [s2 EXCEPT !.m.err = TRUE]
             ELSE LET d == (((current_cycle - s2.epoch) \div p) + 1) * p IN
                  [s2 EXCEPT !.m = callback_at(s2.m, "counter/timer", d)]

\* MC68681._read_stopcc: in counter mode the overrun is computed from
\* _counter_deadline, which raises while that attribute is unset; in timer
\* mode the division by a period of 0 raises
Duart_read_stopcc(s) ==
    LET s1 == Duart_update_ipl(
                  [s EXCEPT !.isr = BitAnd(@, 255 - IMR_COUNTER)])
        p == Duart_timer_period(s1)
    IN  IF ~Duart_mode_is_timer(s1)
        THEN LET s2 == [s1 EXCEPT !.m = callback_cancel(s1.m, "counter/timer")]
             IN  IF ~s2.cdl THEN [s2 EXCEPT !.m.err = TRUE] ELSE s2
        ELSE IF p = 0
             THEN [s1 EXCEPT !.m.err = TRUE]
             ELSE LET d == (((current_cycle - s1.epoch) \div p) + 1) * p IN
                  [s1 EXCEPT !.m = callback_at(s1.m, "counter/timer", d)]

\* MC68681._write_imr
Duart_write_imr(s, value) == Duart_update_ipl([s EXCEPT !.imr = value])

\* MC68681._write_acr
Duart_write_acr(s, value) ==
    LET mode == BitAnd(value, MODE_MASK) IN
    IF mode \in {16, 32, MODE_CTR_XTAL16, 96, MODE_TMR_XTAL16}
    THEN [s EXCEPT !.mode = mode,
                   !.m = callback_cancel(s.m, "counter/timer")]
    ELSE [s EXCEPT !.m.err = TRUE]

\* MC68681._write_ctlr
Duart_write_ctlr(s, value) ==
    [s EXCEPT !.reload = (@ - (@ % 256)) + value]

\* MC68681._callback
Duart_callback(s) ==
    Duart_update_ipl(
        [s EXCEPT !.isr = @ + IMR_COUNTER - BitAnd(@, IMR_COUNTER)])

(***************************************************************************)
(* The simple UART.                                                        *)
(***************************************************************************)
CR_RX_INTEN == 1
CR_TX_INTEN == 2

\* UART._update_ipl
UART_update_ipl(s) ==
    IF BitAnd(s.cr, CR_TX_INTEN) # 0
    THEN [s EXCEPT !.m = assert_ipl(s.m, "uart")]
    ELSE IF BitAnd(s.cr, CR_RX_INTEN) # 0 /\ Len(s.rxfifo) > 0
    THEN [s EXCEPT !.m = assert_ipl(s.m, "uart")]
    ELSE [s EXCEPT !.m = deassert_ipl(s.m, "uart")]

\* UART._read_dr: the method returns the byte it takes from the FIFO, so
\* the statement after the return is never reached
UART_read_dr(s) ==
    IF Len(s.rxfifo) > 0 THEN [s EXCEPT !.rxfifo = Tail(@)] ELSE s

\* UART._write_cr
UART_write_cr(s, value) == UART_update_ipl([s EXCEPT !.cr = value])

\* UART._write_vr
UART_write_vr(s, value) == [s EXCEPT !.vr = value]

\* UART.reset
UART_reset(s) == [s EXCEPT !.rxfifo = <<>>, !.vr = 0, !.cr = 0]

\* UART._handle_console_input
UART_handle_console_input(s, input) ==
    UART_update_ipl([s EXCEPT !.rxfifo = @ \o input])

\* the handler registered under each callback name
Handler(k, s) ==
    CASE k = "count"         -> Timer_callback(s)
      [] k = "tick"          -> NE555_tick(s)
      [] k = "console"       -> SocketConsole_check_socket(s)
      [] k = "counter/timer" -> Duart_callback(s)

(***************************************************************************)
(* The register table.  A descriptor's address is the device's base plus   *)
(* the offset; its name counts the descriptors made with the same triple.  *)
(***************************************************************************)
KeyError == [name |-> 0, address |-> 0, size |-> 0, access |-> 0]
NoAccess == [op |-> "none", address |-> 0, size |-> 0, access |-> 0]

(***************************************************************************)
(* The ELF loader, src/imageELF.py.  A file is its entry point, its stack  *)
(* size (0 when there is no PT_GNU_STACK header) and its section headers   *)
(* in file order; sh_info counts sections from 1.  imageELF.py imports     *)
(* neither RelocationSection nor R_68K_32: bound = FALSE is the module as  *)
(* it stands, where evaluating either name raises NameError, bound = TRUE  *)
(* is the module with the two pyelftools names in scope.                   *)
(***************************************************************************)
R_68K_32 == 1
R_68K_PC32 == 4
LinkAddr == 8
Words == {<<0, 0, 0, 0>>, <<0, 0, 0, 5>>, <<0, 0, 4, 0>>, <<255, 255, 255, 255>>}
Addends == {0, 5}
Bases == {0, 1, 65536}
StackSizes == {0, 2}

\* a 32-bit big-endian word is kept as its four bytes; the sum of a word and
\* a load base below 2^31, modulo 2^32, is formed on the 16-bit halves
Add32(b, d) ==
    LET lo == b[3] * 256 + b[4] + (d % 65536)
        hi == b[1] * 256 + b[2] + (d \div 65536) + (lo \div 65536)
    IN  <<(hi \div 256) % 256, hi % 256, (lo \div 256) % 256, lo % 256>>

\* a section of six bytes: the word w between two bytes that no relocation
\* refers to
ProgBits(alloc, w) ==
    [kind |-> "progbits", alloc |-> alloc, addr |-> LinkAddr,
     data |-> <<85>> \o w \o <<170>>,
     info |-> 0, relocs |-> <<>>]
RelocSecTo(info, relocs) ==
    [kind |-> "rela", alloc |-> FALSE, addr |-> 0, data |-> <<>>, info |-> info,
     relocs |-> relocs]
RelocSec(relocs) == RelocSecTo(1, relocs)
Reloc(rela, type, addend) ==
    [rela |-> rela, type |-> type, offset |-> LinkAddr + 1, addend |-> addend]

NoLoad == [status |-> "none", base |-> 0, entry |-> 0, sections |-> <<>>,
           vec0 |-> 0, vec1 |-> 0]

\* ELFImage._get_loadable_sections: the SHF_ALLOC sections keyed by sh_addr
get_loadable_sections(img) ==
    LET al == {i \in 1..Len(img.sections) : img.sections[i].alloc}
    IN  [a \in {img.sections[i].addr : i \in al} |->
            img.sections[CHOOSE i \in al : img.sections[i].addr = a].data]

\* bytearray.__setitem__: the value must be in range(256), the index inside
setitem(load, base, i, v) ==
    IF load.status # "ok" THEN load
    ELSE IF v \notin 0..255 THEN [load EXCEPT !.status = "ValueError"]
    ELSE IF i + 1 > Len(load.data[base]) THEN [load EXCEPT !.status = "IndexError"]
    ELSE [load EXCEPT !.data[base][i + 1] = v]

\* ELFImage.relocate, the stores into the first section holding the address
poke(load, reloc_address, rel_value) ==
    LET hit == {b \in DOMAIN load.data :
                   b <= reloc_address /\ reloc_address - b < Len(load.data[b])}
    IN  IF hit = {} THEN load
        ELSE LET b == CHOOSE x \in hit : TRUE
                 o == reloc_address - b
             IN  setitem(setitem(setitem(setitem(load,
                     b, o + 0, rel_value \div 2^24),
                     b, o + 1, rel_value \div 2^16),
                     b, o + 2, rel_value \div 2^8),
                     b, o + 3, rel_value)

\* every relocation type is applied
is_R_68K_32_or_other(reloc) == TRUE

\* ELFImage.relocate: only R_68K_32 relocations are of interest
is_R_68K_32(reloc) == reloc.type = R_68K_32

RECURSIVE iter_relocations(_, _, _, _, _)
\* ELFImage.relocate, the loop over one relocation section's entries
iter_relocations(load, bound, relocs, i, offset) ==
    IF load.status # "ok" \/ i > Len(relocs) THEN load
    ELSE LET reloc == relocs[i]
         IN  IF ~reloc.rela THEN [load EXCEPT !.status = "RuntimeError"]
             ELSE IF ~bound THEN [load EXCEPT !.status = "NameError"]
             ELSE IF ~is_R_68K_32(reloc)
                  THEN iter_relocations(load, bound, relocs, i + 1, offset)
             ELSE iter_relocations(poke(load, reloc.offset, offset + reloc.addend),
                                   bound, relocs, i + 1, offset)

RECURSIVE iter_sections(_, _, _, _)
\* ELFImage.relocate, the loop over the file's sections
iter_sections(load, img, i, offset) ==
    IF load.status # "ok" \/ i > Len(img.sections) THEN load
    ELSE LET section == img.sections[i]
         IN  IF ~img.bound THEN [load EXCEPT !.status = "NameError"]
             ELSE IF section.kind # "rela" THEN iter_sections(load, img, i + 1, offset)
             ELSE IF ~img.sections[section.info].alloc
                  THEN iter_sections(load, img, i + 1, offset)
             ELSE iter_sections(
                      iter_relocations(load, img.bound, section.relocs, 1, offset),
                      img, i + 1, offset)

\* the sections stay at their link addresses
relocated_sections_in_place(data, offset) == data

\* ELFImage.relocate, the returned dictionary: every section moved by offset
relocated_sections(data, offset) ==
    [a \in {b + offset : b \in DOMAIN data} |-> data[a - offset]]

\* ELFImage.relocate
relocate(img, offset) ==
    LET load == iter_sections([status |-> "ok", data |-> get_loadable_sections(img)],
                              img, 1, offset)
    IN  [status |-> load.status,
         entry |-> img.entry + offset,
         sections |-> relocated_sections(load.data, offset)]

\* the first address past the loaded sections
end_of_image(sections) ==
    IF DOMAIN sections = {} THEN 0
    ELSE LET top == {a + Len(sections[a]) : a \in DOMAIN sections}
         IN  CHOOSE t \in top : \A u \in top : u <= t

\* the relocation entries of the file
all_relocs(img) ==
    {<<i, j>> \in (1..Len(img.sections)) \X (1..1) :
        j <= Len(img.sections[i].relocs)}

\* the image loader: relocate to the load base, place the sections, write the
\* initial stack pointer and the entry point into vectors 0 and 1
load_image(img, offset) ==
    LET r == relocate(img, offset)
    IN  IF r.status # "ok"
        THEN [NoLoad EXCEPT !.status = r.status, !.base = offset]
        ELSE [status |-> "ok", base |-> offset, entry |-> r.entry,
              sections |-> r.sections,
              vec0 |-> IF img.stack_size > 0
                       THEN end_of_image(r.sections) + img.stack_size ELSE 0,
              vec1 |-> r.entry]

\* the word is a symbol's value plus the addend, so not below the addend
AtLeast(w, ad) == w[1] > 0 \/ w[2] > 0 \/ w[3] * 256 + w[4] >= ad

\* the relocation tables offered for a section holding the word w
RelocLists(w) ==
    {<<>>} \cup {<<Reloc(ra, ty, ad)>> :
                    ra \in BOOLEAN, ty \in {R_68K_32, R_68K_PC32},
                    ad \in {x \in Addends : AtLeast(w, x)}}

\* the files offered to the loader
Images ==
    {[bound |-> b, entry |-> LinkAddr, stack_size |-> k, sections |-> ss] :
        b \in BOOLEAN, k \in StackSizes,
        ss \in {<<>>}
           \cup {<<ProgBits(al, w)>> : al \in BOOLEAN, w \in Words}
           \cup UNION {{<<ProgBits(al, w), RelocSec(rr)>> :
                           al \in BOOLEAN, rr \in RelocLists(w)} : w \in Words}
           \cup UNION {{<<ProgBits(TRUE, w), RelocSecTo(3, rr), ProgBits(FALSE, w)>> :
                           rr \in RelocLists(w)} : w \in Words}}

NoImage == [bound |-> FALSE, entry |-> 0, stack_size |-> 0, sections |-> <<>>]

\* no image has been opened
Elf_init ==
    /\ elf = NoImage
    /\ elf_out = NoLoad

(***************************************************************************)
(* The symbol store of ELFImage.  A symbol is (name, type, address, size). *)
(***************************************************************************)
MaxSyms == 2
MaxSymAddr == 2
MaxSymSize == 2
SymNames == {"foo", "bar"}
SymTypes == {"STT_FUNC", "STT_NOTYPE"}
Symbols == [name : SymNames, type : SymTypes, addr : 0..MaxSymAddr,
            size : 0..MaxSymSize]
\* the symbol tables offered: names are unique, and symbols at different
\* addresses do not overlap; aliases share an address
SymTabs == {t \in UNION {[1..n -> Symbols] : n \in 0..MaxSyms} :
               \A i, j \in DOMAIN t :
                   /\ i # j => t[i].name # t[j].name
                   /\ t[i].addr < t[j].addr => t[i].addr + t[i].size <= t[j].addr}

NoCache == [symbol_cache |-> <<>>, address_cache |-> <<>>]
NoQuery == [op |-> "none", address |-> 0, name |-> "", text |-> <<>>,
            range |-> {}, error |-> FALSE]

\* only data and function symbols are of interest
cached_type(type) == type \in {"STT_OBJECT", "STT_FUNC"}

\* ELFImage._cache_symbols, one symbol: the dictionary assignments replace
\* what was stored under the same address and under the same name
cache_symbol(c, symbol) ==
    IF ~cached_type(symbol.type) THEN c
    ELSE [symbol_cache |->
              (symbol.addr :> <<[name |-> symbol.name, size |-> symbol.size]>>)
              @@ c.symbol_cache,
          address_cache |-> (symbol.name :> symbol.addr) @@ c.address_cache]

RECURSIVE cache_symbols(_, _, _)
\* ELFImage._cache_symbols, the loop over the section's symbols
cache_symbols(c, tab, i) ==
    IF i > Len(tab) THEN c
    ELSE cache_symbols(cache_symbol(c, tab[i]), tab, i + 1)

\* ELFImage._symbol_index, read from its upper end: the greatest cached
\* address at or below a
index_floor(cache, a) ==
    LET below == {x \in DOMAIN cache : x <= a}
    IN  CHOOSE x \in below : \A y \in below : y <= x

\* the address lookup: the names at an exact address, otherwise the names at
\* the greatest address below whose size reaches the query, with the offset
get_symbol_name(cache, a) ==
    IF a \in DOMAIN cache
    THEN [i \in 1..Len(cache[a]) |-> [name |-> cache[a][i].name, offset |-> 0]]
    ELSE IF {x \in DOMAIN cache : x <= a} = {} THEN <<>>
    ELSE LET x == index_floor(cache, a)
             hit == SelectSeq(cache[x], LAMBDA e : a - x < e.size)
         IN  [i \in 1..Len(hit) |-> [name |-> hit[i].name, offset |-> a - x]]

\* ELFImage.get_symbol_range; no name of the model converts to an address
get_symbol_range(c, name) ==
    IF name \in DOMAIN c.address_cache
    THEN LET addr == c.address_cache[name]
             size == c.symbol_cache[addr][1].size
         IN  [NoQuery EXCEPT !.op = "range", !.name = name,
                             !.range = addr..(addr + size - 1)]
    ELSE [NoQuery EXCEPT !.op = "range", !.name = name, !.error = TRUE]

\* no symbol file has been opened
Sym_init ==
    /\ symtab = <<>>
    /\ symbol_cache = <<>>
    /\ address_cache = <<>>
    /\ sym_out = NoQuery

(***************************************************************************)
(* The user interrupt.  Time is counted in ticks, TicksPerSecond to the    *)
(* second; time.time() is far more than a second past the zero that        *)
(* _first_interrupt_time starts at.                                        *)
(***************************************************************************)
TicksPerSecond == 3
MaxWallTime == 5
MaxPresses == 4

\* termination is requested at the second press of a window
keyboard_interrupt_two(first, count, t) ==
    IF t - first >= TicksPerSecond
    THEN [first |-> t, count |-> 1, exit |-> FALSE]
    ELSE [first |-> first, count |-> count + 1, exit |-> count + 1 >= 2]

\* Emulator._keyboard_interrupt and Console._keyboard_interrupt, the counting
keyboard_interrupt(first, count, t) ==
    IF t - first >= TicksPerSecond
    THEN [first |-> t, count |-> 1, exit |-> FALSE]
    ELSE [first |-> first, count |-> count + 1, exit |-> count + 1 >= 3]

\* Emulator.__init__, the interrupt counters
Sigint_init ==
    /\ wall_time = TicksPerSecond
    /\ first_interrupt_time = 0
    /\ interrupt_count = 0
    /\ presses = <<>>

(***************************************************************************)
(* The illegal-instruction callback.                                       *)
(***************************************************************************)
ILLG_OK == 1
ILLG_ERROR == 0
Insns == {"identify", "invoke", "other"}
NoIllg == [insn |-> "none", known |-> FALSE, result |-> ILLG_ERROR]

\* a host-service request that names a service the emulator implements
recognised(insn, known) == insn \in {"identify", "invoke"} /\ known

\* Emulator.cb_illg
cb_illg == 1

\* illg_instr_callback_func_type is CFUNCTYPE(c_int, c_int): the engine passes
\* the opcode; cb_illg accepts none, so the call raises TypeError inside the
\* ctypes callback, which leaves the c_int handed back to the engine unset
cb_illg_arity == 0
illg_instr_callback_arity == 1
illg_instr_callback(unset) ==
    IF cb_illg_arity = illg_instr_callback_arity THEN cb_illg ELSE unset

(***************************************************************************)
(* The CompactFlash device.  A sector has SectorSize bytes; the backing    *)
(* file is its length, the position of its handle and the size found at    *)
(* construction.                                                           *)
(***************************************************************************)
SectorSize == 2
MaxSectors == 2
MaxDiskBytes == 8

STATUS_ERR == 1
STATUS_DRQ == 8
STATUS_DF == 32
STATUS_DRDY == 64
ERROR_ABORT == 4
ERROR_UNCORRECTABLE == 64
DRH_LBA_EN == 64
CMD_READ_SECTORS == 32
CMD_WRITE_SECTORS == 48
CMD_IDENTIFY_DEVICE == 236
AMODE_READ == "R"
AMODE_WRITE == "W"
AMODE_IDENTIFY == "I"
AMODE_NONE == "N"

\* CompactFlash.__init__ for a disk file of the given number of sectors, or
\* for no disk file (0); the history fields: the handler raised, the file
\* was read or written since the last command, an access touched an offset
\* that is not in the file, the last command asked for a range that ends
\* after the file
CompactFlash_init(sectors) ==
    [status |-> IF sectors > 0 THEN STATUS_DRDY ELSE STATUS_DF,
     error |-> 0, sector_count |-> 0, sector_number |-> 0, drive_head |-> 0,
     current_mode |-> AMODE_NONE, bytes_remaining |-> 0,
     file_size |-> sectors * SectorSize, length |-> sectors * SectorSize,
     pos |-> sectors * SectorSize,
     raised |-> FALSE, io |-> FALSE, outside |-> FALSE, beyond |-> FALSE]

\* CompactFlash._r_lba with cylinder and head bits 0; -1: CHS mode raises
CompactFlash_r_lba(c) ==
    IF BitAnd(c.drive_head, DRH_LBA_EN) # 0 THEN c.sector_number ELSE -1

\* CompactFlash._do_io
CompactFlash_do_io(c, mode) ==
    IF BitAnd(c.status, STATUS_DF) # 0
    THEN [c EXCEPT !.status = BitOr(@, STATUS_ERR),
                   !.error = ERROR_UNCORRECTABLE]
    ELSE LET cleared == BitAnd(c.status, 255 - (STATUS_ERR + STATUS_DRQ))
             file_byte_offset == CompactFlash_r_lba(c) * SectorSize
             bytes == IF c.sector_count * SectorSize = 0
                      THEN 256 * SectorSize
                      ELSE c.sector_count * SectorSize
             past == file_byte_offset + bytes > c.file_size
         IN  [c EXCEPT !.status = BitOr(IF past THEN BitOr(cleared, STATUS_ERR)
                                        ELSE cleared, STATUS_DRQ),
                       !.error = IF past THEN ERROR_UNCORRECTABLE ELSE 0,
                       !.bytes_remaining = bytes,
                       !.pos = file_byte_offset,
                       !.current_mode = mode,
                       !.beyond = past]

\* CompactFlash._do_identify
CompactFlash_do_identify(c) ==
    [c EXCEPT !.status = STATUS_DRQ, !.error = 0,
              !.bytes_remaining = SectorSize, !.current_mode = AMODE_IDENTIFY]

\* CompactFlash._write_command; _trace_io formats _r_lba first, which raises
\* in CHS mode
CompactFlash_write_command(c, value) ==
    LET c0 == [c EXCEPT !.io = FALSE, !.beyond = FALSE] IN
    IF value \in {CMD_READ_SECTORS, CMD_WRITE_SECTORS, CMD_IDENTIFY_DEVICE}
    THEN IF CompactFlash_r_lba(c0) < 0 THEN [c0 EXCEPT !.raised = TRUE]
         ELSE IF value = CMD_READ_SECTORS
         THEN CompactFlash_do_io(c0, AMODE_READ)
         ELSE IF value = CMD_WRITE_SECTORS
         THEN CompactFlash_do_io(c0, AMODE_WRITE)
         ELSE CompactFlash_do_identify(c0)
    ELSE [c0 EXCEPT !.status = STATUS_ERR, !.error = ERROR_ABORT]

\* the bytes per access of the given width
CompactFlash_count(width) == IF width = MEM_SIZE_8 THEN 1 ELSE 2

\* CompactFlash._io_read; a read of the file returns the bytes between the
\* position and the end of the file, at most count of them
CompactFlash_io_read(c, width) ==
    LET count == CompactFlash_count(width)
        left == IF c.length > c.pos THEN c.length - c.pos ELSE 0
        got == IF left < count THEN left ELSE count
    IN  IF c.current_mode \notin {AMODE_IDENTIFY, AMODE_READ} THEN c
        ELSE IF c.bytes_remaining < count THEN c
        ELSE IF c.current_mode = AMODE_READ
        THEN IF got # count
             THEN [c EXCEPT !.pos = @ + got, !.raised = TRUE, !.io = TRUE,
                            !.outside = TRUE]
             ELSE [c EXCEPT !.pos = @ + count,
                            !.bytes_remaining = @ - count,
                            !.io = TRUE,
                            !.outside = @ \/ c.pos + count > c.file_size]
        ELSE [c EXCEPT !.bytes_remaining = @ - count]

\* CompactFlash._io_write; a write after the end of the file extends it
CompactFlash_io_write(c, width) ==
    LET count == CompactFlash_count(width) IN
    IF c.current_mode # AMODE_WRITE THEN c
    ELSE IF c.bytes_remaining < count THEN c
    ELSE [c EXCEPT !.pos = @ + count,
                   !.length = IF c.pos + count > @ THEN c.pos + count ELSE @,
                   !.bytes_remaining = @ - count,
                   !.io = TRUE,
                   !.outside = @ \/ c.pos + count > c.file_size]

(***************************************************************************)
(* Device.map_registers.                                                   *)
(***************************************************************************)
MEM_PAGE_SIZE == 4096
MEM_PAGE_MASK == MEM_PAGE_SIZE - 1
Offsets == {0, 1, 15, MEM_PAGE_MASK, MEM_PAGE_SIZE, MEM_PAGE_SIZE + 1,
            2 * MEM_PAGE_SIZE}

\* the statement of map_registers that grows Device._size
map_size(size, offset) ==
    IF offset >= size
    THEN ((offset + MEM_PAGE_MASK) \div MEM_PAGE_SIZE) * MEM_PAGE_SIZE
    ELSE size

\* Device.__init__: no size, nothing mapped
Map_init ==
    /\ dev_size = 0
    /\ dev_offsets = {}

Host_init ==
    /\ Elf_init
    /\ Sym_init
    /\ Sigint_init
    /\ illg = NoIllg
    /\ cf = CompactFlash_init(0)
    /\ Map_init

\* the board of the Timer, the ticker and the MC68681; no UART
Board_init ==
    /\ devices = <<"timer", "ticker", "duart">>
    /\ timer_vector = 0
    /\ uart_cr = 0
    /\ uart_vr = 0
    /\ uart_rxfifo = <<>>

\* Register.init: the table is empty
Register_init ==
    /\ registers = <<>>
    /\ reg_made = {}
    /\ reg_result = "none"
    /\ reg_called = 0
    /\ reg_last = NoAccess
    /\ miss = NoMiss
    /\ resets = NoReset
    /\ exception_info = FALSE

\* a key that leaves the width out
Register_key_no_size(r) == <<r.address, 0, r.access>>

\* Register.key
Register_key(r) == <<r.address, r.size, r.access>>

\* Register.lookup; the dictionary raises KeyError for an absent key
Register_lookup(regs, address, size, access) ==
    IF <<address, size, access>> \in DOMAIN regs
    THEN regs[<<address, size, access>>]
    ELSE KeyError

\* an alignment check for 16-bit registers only
Register_aligned_16_only(r) ==
    IF r.size = MEM_SIZE_16 /\ r.address % 2 # 0 THEN "not 2-aligned"
    ELSE "ok"

\* "validate alignment"
Register_aligned(r) ==
    IF r.size = MEM_SIZE_8 THEN "ok"
    ELSE IF r.size = MEM_SIZE_16
         THEN (IF r.address % 2 # 0 THEN "not 2-aligned" ELSE "ok")
    ELSE IF r.size = MEM_SIZE_32
         THEN (IF r.address % 4 # 0 THEN "not 4-aligned" ELSE "ok")
    ELSE "ok"

\* a uniqueness check that refuses any register of the same direction whose
\* bytes overlap the new one's
Register_conflict_overlap(regs, r) ==
    \E k \in DOMAIN regs :
        /\ regs[k].access = r.access
        /\ regs[k].address < r.address + r.size \div 8
        /\ r.address < regs[k].address + regs[k].size \div 8

\* a uniqueness check that never finds a conflict
Register_conflict_never(regs, r) == FALSE

\* "validate uniqueness"
Register_conflict(regs, r) ==
    Register_lookup(regs, r.address, r.size, r.access) # KeyError

\* the checks of the constructor, in its order; "ok" when none raises
Register_validate(regs, r) ==
    IF Register_aligned(r) # "ok" THEN Register_aligned(r)
    ELSE IF r.size \notin {MEM_SIZE_8, MEM_SIZE_16, MEM_SIZE_32}
         THEN "unrecognized size"
    ELSE IF r.access \notin {MEM_READ, MEM_WRITE}
         THEN "unrecognized access"
    ELSE IF Register_conflict(regs, r) THEN "conflicts"
    ELSE "ok"

\* "save for use later": Register.__registers[self.key] = self
Register_save(regs, r) ==
    [k \in DOMAIN regs \cup {Register_key(r)} |->
        IF k = Register_key(r) THEN r ELSE regs[k]]

\* an access that falls back on a register of another width at the address
Register_access_any_width(regs, address, size, access) ==
    IF <<address, size, access>> \in DOMAIN regs
    THEN regs[<<address, size, access>>]
    ELSE IF \E k \in DOMAIN regs : k[1] = address /\ k[3] = access
    THEN regs[CHOOSE k \in DOMAIN regs : k[1] = address /\ k[3] = access]
    ELSE KeyError

\* Register.access: the descriptor whose handler runs, KeyError on a miss
Register_access(regs, address, size, access) ==
    Register_lookup(regs, address, size, access)

(***************************************************************************)
(* Interrupt acknowledge.  The vector registers of the devices are left at *)
(* their reset values: 0 for the Timer and the ticker, 15 for the MC68681. *)
(***************************************************************************)
\* Timer.get_vector
Timer_get_vector(s, interrupt) ==
    [s EXCEPT !.m = deassert_ipl(s.m, "timer"),
              !.vec = IF s.vector > 0 THEN s.vector ELSE IRQ_AUTOVECTOR]

\* UART.get_vector
UART_get_vector(s, interrupt) ==
    [s EXCEPT !.vec = IF s.vr > 0 THEN s.vr ELSE IRQ_AUTOVECTOR]

\* NE555Ticker.get_vector
NE555_get_vector(s, interrupt) ==
    IF s.tfired
    THEN [s EXCEPT !.tfired = FALSE, !.vec = IRQ_AUTOVECTOR]
    ELSE [s EXCEPT !.vec = IRQ_SPURIOUS]

\* MC68681.get_vector
Duart_get_vector(s, interrupt) ==
    IF BitAnd(s.imr, s.isr) # 0
    THEN [s EXCEPT !.vec = 15]
    ELSE [s EXCEPT !.vec = IRQ_SPURIOUS]

get_vector(d, s, interrupt) ==
    CASE d = "timer"  -> Timer_get_vector(s, interrupt)
      [] d = "uart"   -> UART_get_vector(s, interrupt)
      [] d = "ticker" -> NE555_get_vector(s, interrupt)
      [] d = "duart"  -> Duart_get_vector(s, interrupt)

\* the loop of RootDevice.cb_int from device i on
RECURSIVE PollDevices(_, _, _)
PollDevices(s, i, interrupt) ==
    IF i > Len(Devices) THEN [s EXCEPT !.vec = IRQ_SPURIOUS]
    ELSE LET d == Devices[i]
             t == get_vector(d, [s EXCEPT !.polled = @ \cup {d}], interrupt)
         IN  IF t.vec # IRQ_SPURIOUS THEN t
             ELSE PollDevices(t, i + 1, interrupt)

\* RootDevice.cb_int
cb_int(s, interrupt) == PollDevices(s, 1, interrupt)

\* the engine samples its IRQ input: a level above the mask is acknowledged
\* through cb_int and the mask is raised to that level
take_interrupt(s, level, mask) ==
    IF level > mask
    THEN LET t == cb_int(s, level) IN
         [dev |-> t, cpl |-> level,
          ack |-> [level |-> level, vector |-> t.vec, polled |-> t.polled,
                   ipl |-> s.m.asserted,
                   own |-> [d \in DeviceSet |->
                              get_vector(d, s, level).vec]]]
    ELSE [dev |-> s, cpl |-> mask, ack |-> ack]

(***************************************************************************)
(* Reset.  The serial channels of the MC68681 are not modelled.            *)
(***************************************************************************)
\* Timer.reset
Timer_reset(s) ==
    [s EXCEPT !.deadline = 0, !.vector = 0,
              !.m = callback_cancel(deassert_ipl(s.m, "timer"), "count")]

\* NE555Ticker.reset
NE555_reset(s) == [NE555_stop(s) EXCEPT !.tfired = FALSE]

\* MC68681.reset
Duart_reset(s) ==
    Duart_read_startcc(
        Duart_write_acr([s EXCEPT !.isr = 0, !.imr = 0, !.reload = 1],
                        MODE_TMR_XTAL16))

Device_reset(d, s) ==
    CASE d = "timer"  -> Timer_reset(s)
      [] d = "uart"   -> UART_reset(s)
      [] d = "ticker" -> NE555_reset(s)
      [] d = "duart"  -> Duart_reset(s)

\* the loop of RootDevice.reset from device i on; the reset() of device
\* number fail raises, which leaves the loop
RECURSIVE ResetDevices(_, _, _)
ResetDevices(s, i, fail) ==
    IF i > Len(Devices) THEN s
    ELSE LET d == Devices[i]
             t == [s EXCEPT !.done = Append(@, d)]
             r == Device_reset(d, t)
         IN  IF i = fail THEN [t EXCEPT !.m.err = TRUE]
             ELSE IF r.m.err THEN r
             ELSE ResetDevices(r, i + 1, fail)

\* a reset that leaves the first device out
RootDevice_reset_from_second(s, fail) == ResetDevices(s, 2, fail)

\* RootDevice.reset
RootDevice_reset(s, fail) == ResetDevices(s, 1, fail)

(***************************************************************************)
(* Initial state: the devices have been constructed at cycle 0.            *)
(***************************************************************************)
InitEmu ==
    /\ elapsed = 0
    /\ cpu_initial = 0
    /\ cpu_remaining = 0
    /\ pc = "tick"
    /\ dead = FALSE
    /\ postmortem = "none"
    /\ cpl = ResetMask
    /\ ack = NoAck
    /\ Register_init
    /\ Board_init
    /\ cycle_limit = CycleLimit
    /\ callbacks = [k \in Keys |->
                      CASE k = "count"   -> NoCb
                        [] k = "tick"    -> [cycle |-> TickCycles, period |-> TickCycles]
                        [] k = "console" -> [cycle |-> ConsoleCycles, period |-> 0]
                        [] k = "counter/timer" -> NoCb]
    /\ asserted = [d \in DeviceSet |-> 0]
    /\ irq_level = 0
    /\ timer_deadline = 0
    /\ ticker_on = TRUE
    /\ tick_fired = FALSE
    /\ duart_mode = MODE_TMR_XTAL16
    /\ duart_reload = 1
    /\ duart_epoch = 0
    /\ duart_cdl = FALSE
    /\ duart_isr = 0
    /\ duart_imr = 0
    /\ fired = NoFire
    /\ early = FALSE
    /\ disorder = FALSE
    /\ owed = {}
    /\ spurious = FALSE
    /\ rejected = FALSE
    /\ cancelled = {}
    /\ tick_epoch = 0
    /\ tick_count = 0

Init == InitEmu /\ Host_init

(***************************************************************************)
(* The emulator loop.                                                      *)
(***************************************************************************)
\* the scheduler's answer to RootDevice.tick: cycles to the next deadline
callback_hint(cbs) ==
    IF next_deadline(cbs) = 0 THEN 0 ELSE next_deadline(cbs) - elapsed

\* a tick that ignores what the devices ask for
RootDevice_tick_default(ret) == TickDeadline

\* RootDevice.tick: the smallest positive hint below the default deadline
RootDevice_tick(ret) ==
    IF ret > 0 /\ ret < TickDeadline THEN ret ELSE TickDeadline

\* variant: the device hint is ignored
cycles_to_run_fixed(hint) == Quantum

\* variant: the hint is handed to execute as it is
cycles_to_run_unclamped(hint) == hint

\* Emulator.run: the cycles handed to execute
cycles_to_run(hint) ==
    IF hint = 0 \/ hint > Quantum THEN Quantum ELSE hint

\* entries of the pending set a handler left as they were
Untouched(cbs) == {k \in Keys : cbs[k] = callbacks[k]}

\* the level on the CPU's IRQ input after a handler ran under cb_access
access_irq(m) ==
    IF m.err /\ m.asserted = asserted
    THEN irq_level
    ELSE check_interrupts(m.asserted)

\* the shared tail of a register access: the handler's result s is stored,
\* the timeslice is coupled to the earliest deadline, or ended when the
\* handler raised, and the instruction's n cycles retire
AccessDone(s, n) ==
    /\ callbacks' = s.m.cbs
    /\ asserted' = s.m.asserted
    /\ irq_level' = access_irq(s.m)
    /\ timer_deadline' = s.deadline
    /\ ticker_on' = s.on
    /\ tick_fired' = s.tfired
    /\ duart_mode' = s.mode
    /\ duart_reload' = s.reload
    /\ duart_epoch' = s.epoch
    /\ duart_cdl' = s.cdl
    /\ duart_isr' = s.isr
    /\ duart_imr' = s.imr
    /\ dead' = (dead \/ s.m.err)
    /\ rejected' = s.m.rej
    /\ cancelled' = s.m.cancelled
    /\ owed' = owed \cap Untouched(s.m.cbs)
    /\ LET ts == IF s.m.err
                 THEN end_timeslice(Timeslice)
                 ELSE couple_deadline(s.m.cbs, Timeslice)
           tn == use_cycles(ts, n)
       IN  /\ cpu_initial' = tn.initial
           /\ cpu_remaining' = tn.remaining
    /\ postmortem' = IF s.m.err /\ postmortem = "none" /\ ~dead
                     THEN "exception" ELSE postmortem
    /\ exception_info' = (exception_info \/ s.m.err)
    /\ timer_vector' = s.vector
    /\ uart_cr' = s.cr
    /\ uart_vr' = s.vr
    /\ uart_rxfifo' = s.rxfifo
    /\ UNCHANGED <<devices, host_vars, reg_vars, miss, resets, elapsed, pc, cpu_vars, cycle_limit, fired, early,
                   disorder, spurious>>

\* an instruction that touches no device
CpuInstr(n) ==
    /\ pc = "run" /\ cpu_remaining > 0
    /\ cpu_remaining' = cpu_remaining - n
    /\ UNCHANGED <<board_vars, exception_info, host_vars, reg_vars, miss, resets, elapsed, cpu_initial, pc, dead, postmortem,
                   cpu_vars, cycle_limit, callbacks, asserted,
                   irq_level, timer_deadline, ticker_on, tick_fired,
                   duart_vars, fired, early, disorder, owed, spurious,
                   rejected, cancelled, tick_epoch, tick_count>>

\* an instruction that writes the Timer's COUNT register
TimerWrite(value, n) ==
    /\ pc = "run" /\ cpu_remaining > 0
    /\ AccessDone(Timer_write_countdown(Dev, value), n)
    /\ UNCHANGED <<tick_epoch, tick_count>>

\* an instruction that accesses the ticker
TickerAccess(value, n) ==
    /\ pc = "run" /\ cpu_remaining > 0
    /\ LET s == NE555_access(Dev, value) IN
       /\ AccessDone(s, n)
       /\ IF s.m.cbs["tick"] # callbacks["tick"]
          THEN /\ tick_epoch' = IF value > 0 THEN current_cycle ELSE 0
               /\ tick_count' = 0
          ELSE UNCHANGED <<tick_epoch, tick_count>>

\* an instruction that reads the MC68681 STARTCC register
DuartReadStartCC(n) ==
    /\ pc = "run" /\ cpu_remaining > 0
    /\ AccessDone(Duart_read_startcc(Dev), n)
    /\ UNCHANGED <<tick_epoch, tick_count>>

\* an instruction that reads the MC68681 STOPCC register
DuartReadStopCC(n) ==
    /\ pc = "run" /\ cpu_remaining > 0
    /\ AccessDone(Duart_read_stopcc(Dev), n)
    /\ UNCHANGED <<tick_epoch, tick_count>>

\* an instruction that writes the MC68681 ACR register
DuartWriteACR(value, n) ==
    /\ pc = "run" /\ cpu_remaining > 0
    /\ AccessDone(Duart_write_acr(Dev, value), n)
    /\ UNCHANGED <<tick_epoch, tick_count>>

\* an instruction that writes the MC68681 CTLR register
DuartWriteCTLR(value, n) ==
    /\ pc = "run" /\ cpu_remaining > 0
    /\ AccessDone(Duart_write_ctlr(Dev, value), n)
    /\ UNCHANGED <<tick_epoch, tick_count>>

\* an instruction that writes the MC68681 IMR register
DuartWriteIMR(value, n) ==
    /\ pc = "run" /\ cpu_remaining > 0
    /\ AccessDone(Duart_write_imr(Dev, value), n)
    /\ UNCHANGED <<tick_epoch, tick_count>>

\* an instruction that loads the status register with interrupt mask m; the
\* engine samples its IRQ input against the new mask
CpuSetMask(m, n) ==
    /\ pc = "run" /\ cpu_remaining > 0
    /\ cpu_remaining' = cpu_remaining - n
    /\ LET t == take_interrupt(Dev, irq_level, m) IN
       /\ asserted' = t.dev.m.asserted
       /\ tick_fired' = t.dev.tfired
       /\ irq_level' = check_interrupts(t.dev.m.asserted)
       /\ cpl' = t.cpl
       /\ ack' = t.ack
    /\ UNCHANGED <<board_vars, exception_info, host_vars, reg_vars, miss, resets, elapsed, cpu_initial, pc, dead, postmortem,
                   cycle_limit, callbacks, timer_deadline, ticker_on, duart_vars, fired,
                   early, disorder, owed, spurious, rejected, cancelled,
                   tick_epoch, tick_count>>

\* a test that also ends the run when the limit is reached exactly
cycle_limit_reached(e) == e >= cycle_limit

\* the test of the cycle limit in Emulator.run
cycle_limit_exceeded(e) == e > cycle_limit

\* execute returns: the cycles run are added to the elapsed cycles and the
\* loop checks for an illegal access and for the cycle limit
QuantumEnd(illegal) ==
    /\ pc = "run" /\ cpu_remaining <= 0
    /\ elapsed' = elapsed + cycles_run
    /\ LET fatal == illegal \/ cycle_limit_exceeded(elapsed')
           ts == IF fatal THEN end_timeslice(Timeslice) ELSE Timeslice
       IN  /\ dead' = (dead \/ fatal)
           /\ cpu_initial' = ts.initial
           /\ cpu_remaining' = ts.remaining
    /\ postmortem' = IF cycle_limit_exceeded(elapsed')
                     THEN "cycle limit exceeded"
                     ELSE IF illegal THEN "illegal memory access"
                     ELSE postmortem
    /\ pc' = IF dead' THEN "dead" ELSE "tick"
    /\ owed' = {k \in Pending(callbacks) : callbacks[k].cycle <= elapsed'}
    /\ UNCHANGED <<board_vars, exception_info, host_vars, reg_vars, miss, resets, cpu_vars, cycle_limit, callbacks, asserted,
                   irq_level,
                   timer_deadline, ticker_on, tick_fired, duart_vars, fired, early, disorder, spurious,
                   rejected, cancelled, tick_epoch, tick_count>>

\* the fire-due pass selects the earliest due entry and calls its handler
FireOne(k) ==
    /\ pc = "tick"
    /\ k \in Selectable(callbacks)
    /\ LET s0 == [Dev EXCEPT !.m.cbs = after_fire(callbacks, k)]
           s == Handler(k, s0)
       IN  /\ callbacks' = s.m.cbs
           /\ asserted' = s.m.asserted
           /\ irq_level' = check_interrupts(s.m.asserted)
           /\ timer_deadline' = s.deadline
           /\ ticker_on' = s.on
           /\ tick_fired' = s.tfired
           /\ duart_isr' = s.isr
           /\ spurious' = (spurious \/ s.spur)
           /\ rejected' = s.m.rej
           /\ cancelled' = s.m.cancelled
           /\ dead' = (dead \/ s.m.err)
           /\ exception_info' = (exception_info \/ s.m.err)
           /\ pc' = IF s.m.err THEN "dead" ELSE "tick"
           /\ owed' = (owed \ {k}) \cap {j \in Keys : j = k \/ s.m.cbs[j] = callbacks[j]}
    /\ fired' = [key |-> k, cycle |-> callbacks[k].cycle]
    /\ early' = (early \/ current_cycle < callbacks[k].cycle)
    /\ disorder' = (disorder \/ callbacks[k].cycle < fired.cycle)
    /\ tick_count' = IF k = "tick" THEN tick_count + 1 ELSE tick_count
    /\ postmortem' = IF dead' /\ postmortem = "none"
                     THEN "exception" ELSE postmortem
    /\ UNCHANGED <<board_vars, host_vars, reg_vars, miss, resets, elapsed, cpu_initial, cpu_remaining, cpu_vars,
                   cycle_limit, tick_epoch, duart_mode,
                   duart_reload, duart_epoch, duart_cdl, duart_imr>>

\* nothing is due any more: RootDevice.tick returns its hint and the loop
\* starts the next quantum
TickDone ==
    /\ pc = "tick"
    /\ DueKeys(callbacks) = {}
    /\ LET n == cycles_to_run(RootDevice_tick(callback_hint(callbacks))) IN
       /\ cpu_initial' = n
       /\ cpu_remaining' = n
    /\ LET t == take_interrupt(Dev, check_interrupts(asserted), cpl) IN
       /\ asserted' = t.dev.m.asserted
       /\ tick_fired' = t.dev.tfired
       /\ irq_level' = check_interrupts(t.dev.m.asserted)
       /\ cpl' = t.cpl
       /\ ack' = t.ack
    /\ pc' = "run"
    /\ UNCHANGED <<board_vars, exception_info, host_vars, reg_vars, miss, resets, elapsed, dead, postmortem, cycle_limit,
                   callbacks, timer_deadline,
                   ticker_on, duart_vars, fired, early, disorder,
                   owed, spurious, rejected, cancelled, tick_epoch,
                   tick_count>>

Next ==
    \/ \E n \in 1..MaxInstr : CpuInstr(n)
    \/ \E v \in 0..MaxCount, n \in 1..MaxInstr : TimerWrite(v, n)
    \/ \E v \in 0..1, n \in 1..MaxInstr : TickerAccess(v, n)
    \/ \E b \in BOOLEAN : QuantumEnd(b)
    \/ \E k \in Keys : FireOne(k)
    \/ TickDone

Spec == Init /\ [][Next]_vars

\* the run loop and the CPU engine are sequential code: while the loop has
\* not exited, its next step is taken
NextLive ==
    \/ \E n \in 1..MaxInstr : CpuInstr(n)
    \/ \E v \in 0..MaxCount : TimerWrite(v, 1)
    \/ \E v \in 0..1 : TickerAccess(v, 1)
    \/ \E b \in BOOLEAN : QuantumEnd(b)
    \/ \E k \in Keys : FireOne(k)
    \/ TickDone

SpecLive == Init /\ [][NextLive]_vars /\ WF_vars(NextLive)

(***************************************************************************)
(* A machine whose only device is the MC68681.  Its constructor ends with  *)
(* reset(), which selects the timer mode and reads STARTCC at cycle 0.     *)
(***************************************************************************)
InitDuart ==
    /\ elapsed = 0
    /\ cpu_initial = 0
    /\ cpu_remaining = 0
    /\ pc = "tick"
    /\ dead = FALSE
    /\ postmortem = "none"
    /\ cpl = ResetMask
    /\ ack = NoAck
    /\ Register_init
    /\ Board_init
    /\ Host_init
    /\ cycle_limit = DuartCycleLimit
    /\ callbacks = [k \in Keys |->
                      IF k = "counter/timer"
                      THEN [cycle |-> 2 * DuartScaler, period |-> 0]
                      ELSE NoCb]
    /\ asserted = [d \in DeviceSet |-> 0]
    /\ irq_level = 0
    /\ timer_deadline = 0
    /\ ticker_on = FALSE
    /\ tick_fired = FALSE
    /\ duart_mode = MODE_TMR_XTAL16
    /\ duart_reload = 1
    /\ duart_epoch = 0
    /\ duart_cdl = FALSE
    /\ duart_isr = 0
    /\ duart_imr = 0
    /\ fired = NoFire
    /\ early = FALSE
    /\ disorder = FALSE
    /\ owed = {}
    /\ spurious = FALSE
    /\ rejected = FALSE
    /\ cancelled = {}
    /\ tick_epoch = 0
    /\ tick_count = 0

NextDuart ==
    \/ \E n \in 1..MaxInstr : CpuInstr(n)
    \/ \E n \in 1..MaxInstr : DuartReadStartCC(n)
    \/ \E n \in 1..MaxInstr : DuartReadStopCC(n)
    \/ \E v \in {0, MODE_CTR_XTAL16, MODE_TMR_XTAL16}, n \in 1..MaxInstr :
          DuartWriteACR(v, n)
    \/ \E v \in 0..MaxReload, n \in 1..MaxInstr : DuartWriteCTLR(v, n)
    \/ \E v \in {0, IMR_COUNTER}, n \in 1..MaxInstr : DuartWriteIMR(v, n)
    \/ \E b \in BOOLEAN : QuantumEnd(b)
    \/ \E k \in Keys : FireOne(k)
    \/ TickDone

SpecDuart == InitDuart /\ [][NextDuart]_vars

(***************************************************************************)
(* A machine with the Timer, the ticker and the MC68681, whose             *)
(* guest program changes its interrupt mask.                               *)
(***************************************************************************)
InitIrq ==
    /\ elapsed = 0
    /\ cpu_initial = 0
    /\ cpu_remaining = 0
    /\ pc = "tick"
    /\ dead = FALSE
    /\ postmortem = "none"
    /\ cpl = ResetMask
    /\ ack = NoAck
    /\ Register_init
    /\ Board_init
    /\ Host_init
    /\ cycle_limit = IrqCycleLimit
    /\ callbacks = [k \in Keys |->
                      CASE k = "counter/timer" ->
                             [cycle |-> 2 * DuartScaler, period |-> 0]
                        [] k = "tick" ->
                             [cycle |-> TickCycles, period |-> TickCycles]
                        [] OTHER -> NoCb]
    /\ asserted = [d \in DeviceSet |-> 0]
    /\ irq_level = 0
    /\ timer_deadline = 0
    /\ ticker_on = TRUE
    /\ tick_fired = FALSE
    /\ duart_mode = MODE_TMR_XTAL16
    /\ duart_reload = 1
    /\ duart_epoch = 0
    /\ duart_cdl = FALSE
    /\ duart_isr = 0
    /\ duart_imr = 0
    /\ fired = NoFire
    /\ early = FALSE
    /\ disorder = FALSE
    /\ owed = {}
    /\ spurious = FALSE
    /\ rejected = FALSE
    /\ cancelled = {}
    /\ tick_epoch = 0
    /\ tick_count = 0

NextIrq ==
    \/ \E n \in 1..MaxInstr : CpuInstr(n)
    \/ \E m \in {0, ResetMask}, n \in 1..MaxInstr : CpuSetMask(m, n)
    \/ \E v \in 0..MaxCount, n \in 1..MaxInstr : TimerWrite(v, n)
    \/ \E v \in 0..1, n \in 1..MaxInstr : TickerAccess(v, n)
    \/ \E v \in {0, IMR_COUNTER}, n \in 1..MaxInstr : DuartWriteIMR(v, n)
    \/ \E b \in BOOLEAN : QuantumEnd(b)
    \/ \E k \in Keys : FireOne(k)
    \/ TickDone

SpecIrq == InitIrq /\ [][NextIrq]_vars

(***************************************************************************)
(* The MC68681 machine with a guest that accesses addresses nothing is     *)
(* mapped at.                                                              *)
(***************************************************************************)
\* an instruction that accesses an address of the device space that no
\* device has mapped: cb_access traces the failed lookup and returns 0
DeviceMiss(n) ==
    /\ pc = "run" /\ cpu_remaining > 0
    /\ cpu_remaining' = cpu_remaining - n
    /\ miss' = [kind |-> "device", flip |-> ~miss.flip]
    /\ UNCHANGED <<board_vars, exception_info, host_vars, reg_vars, resets, elapsed, cpu_initial, pc, dead, postmortem,
                   cpu_vars, cycle_limit, callbacks, asserted, irq_level,
                   timer_deadline, ticker_on, tick_fired, duart_vars, fired,
                   early, disorder, owed, spurious, rejected, cancelled,
                   tick_epoch, tick_count>>

\* an instruction that accesses an address outside RAM, ROM and the device
\* space: the memory layer calls cb_buserror, which ends the emulation
InvalidAccess(n) ==
    /\ pc = "run" /\ cpu_remaining > 0
    /\ dead' = TRUE
    /\ postmortem' = "BUS ERROR"
    /\ LET tn == use_cycles(end_timeslice(Timeslice), n) IN
       /\ cpu_initial' = tn.initial
       /\ cpu_remaining' = tn.remaining
    /\ miss' = [kind |-> "memory", flip |-> ~miss.flip]
    /\ UNCHANGED <<board_vars, exception_info, host_vars, reg_vars, resets, elapsed, pc, cpu_vars, cycle_limit, callbacks,
                   asserted, irq_level, timer_deadline, ticker_on, tick_fired,
                   duart_vars, fired, early, disorder, owed, spurious,
                   rejected, cancelled, tick_epoch, tick_count>>

InitBus == InitDuart

NextBus ==
    \/ \E n \in 1..MaxInstr : CpuInstr(n)
    \/ \E n \in 1..MaxInstr : DeviceMiss(n)
    \/ \E n \in 1..MaxInstr : InvalidAccess(n)
    \/ \E b \in BOOLEAN : QuantumEnd(b)
    \/ \E k \in Keys : FireOne(k)
    \/ TickDone

SpecBus == InitBus /\ [][NextBus]_vars

(***************************************************************************)
(* The machine with the Timer, the ticker and the MC68681, with a guest    *)
(* that executes RESET instructions.                                       *)
(***************************************************************************)
\* a RESET instruction: Emulator.cb_reset ends the timeslice and calls the
\* reset hook, RootDevice.reset; an exception of the hook is fatal
CpuReset(fail, n) ==
    /\ pc = "run" /\ cpu_remaining > 0
    /\ LET s == RootDevice_reset(Dev, fail)
           ts == IF s.m.err
                 THEN end_timeslice(end_timeslice(Timeslice))
                 ELSE end_timeslice(Timeslice)
           tn == use_cycles(ts, n)
       IN  /\ resets' = [done |-> s.done, raised |-> s.m.err]
           /\ exception_info' = (exception_info \/ s.m.err)
           /\ callbacks' = s.m.cbs
           /\ asserted' = s.m.asserted
           /\ irq_level' = check_interrupts(s.m.asserted)
           /\ timer_deadline' = s.deadline
           /\ ticker_on' = s.on
           /\ tick_fired' = s.tfired
           /\ duart_mode' = s.mode
           /\ duart_reload' = s.reload
           /\ duart_epoch' = s.epoch
           /\ duart_cdl' = s.cdl
           /\ duart_isr' = s.isr
           /\ duart_imr' = s.imr
           /\ timer_vector' = s.vector
           /\ uart_cr' = s.cr
           /\ uart_vr' = s.vr
           /\ uart_rxfifo' = s.rxfifo
           /\ dead' = (dead \/ s.m.err)
           /\ postmortem' = IF s.m.err /\ postmortem = "none" /\ ~dead
                            THEN "exception" ELSE postmortem
           /\ rejected' = s.m.rej
           /\ cancelled' = s.m.cancelled
           /\ owed' = owed \cap Untouched(s.m.cbs)
           /\ cpu_initial' = tn.initial
           /\ cpu_remaining' = tn.remaining
           /\ IF s.m.cbs["tick"] # callbacks["tick"]
              THEN tick_epoch' = 0 /\ tick_count' = 0
              ELSE UNCHANGED <<tick_epoch, tick_count>>
    /\ UNCHANGED <<devices, host_vars, reg_vars, miss, elapsed, pc, cpu_vars, cycle_limit, fired,
                   early, disorder, spurious>>

InitReset == InitIrq

NextReset ==
    \/ \E n \in 1..MaxInstr : CpuInstr(n)
    \/ \E v \in 0..MaxCount : TimerWrite(v, 1)
    \/ \E v \in 0..1 : TickerAccess(v, 1)
    \/ \E v \in {0, IMR_COUNTER} : DuartWriteIMR(v, 1)
    \/ \E f \in 0..Len(Devices) : CpuReset(f, 1)
    \/ \E b \in BOOLEAN : QuantumEnd(b)
    \/ \E k \in Keys : FireOne(k)
    \/ TickDone

SpecReset == InitReset /\ [][NextReset]_vars

(***************************************************************************)
(* The register table while devices are constructed and accessed.          *)
(***************************************************************************)
\* Register.__init__ for a register of the given address, size and access
RegisterNew(address, size, access) ==
    /\ Cardinality(reg_made) < MaxRegs
    /\ LET same == {q \in reg_made :
                       <<q.address, q.size, q.access>> = <<address, size, access>>}
           r == [name |-> Cardinality(same) + 1, address |-> address,
                 size |-> size, access |-> access]
           result == Register_validate(registers, r)
       IN  /\ reg_result' = result
           /\ registers' = IF result = "ok" THEN Register_save(registers, r)
                           ELSE registers
           /\ reg_made' = IF result = "ok" THEN reg_made \cup {r}
                          ELSE reg_made
    /\ reg_called' = 0
    /\ reg_last' = [op |-> "new", address |-> address, size |-> size,
                    access |-> access]
    /\ UNCHANGED <<host_vars, emu_vars>>

\* Register.access for a CPU access of the given address, size and direction
RegisterAccess(address, size, access) ==
    /\ LET r == Register_access(registers, address, size, access) IN
       /\ reg_called' = r.name
       /\ reg_result' = IF r = KeyError THEN "KeyError" ELSE "handled"
    /\ reg_last' = [op |-> "access", address |-> address, size |-> size,
                    access |-> access]
    /\ UNCHANGED <<host_vars, registers, reg_made, emu_vars>>

InitReg == Init

NextReg ==
    \/ \E a \in 0..MaxAddr, sz \in {0, MEM_SIZE_8, MEM_SIZE_16, MEM_SIZE_32},
          x \in {MEM_READ, MEM_WRITE, MEM_MAP} : RegisterNew(a, sz, x)
    \/ \E a \in 0..MaxAddr, sz \in {MEM_SIZE_8, MEM_SIZE_16, MEM_SIZE_32},
          x \in {MEM_READ, MEM_WRITE} : RegisterAccess(a, sz, x)

SpecReg == InitReg /\ [][NextReg]_vars

(***************************************************************************)
(* Loading an image: the inputs are the ELF files of Images and the load   *)
(* bases of Bases.                                                         *)
(***************************************************************************)
LoadImage(offset) ==
    /\ elf_out.status = "none"
    /\ elf_out' = load_image(elf, offset)
    /\ UNCHANGED <<elf, sym_vars, sigint_vars, illg, cf, map_vars, reg_vars, emu_vars>>

InitElf ==
    /\ InitEmu
    /\ elf \in Images
    /\ elf_out = NoLoad
    /\ Sym_init
    /\ Sigint_init
    /\ illg = NoIllg
    /\ cf = CompactFlash_init(0)
    /\ Map_init

NextElf == \E offset \in Bases : LoadImage(offset)

SpecElf == InitElf /\ [][NextElf]_vars

(***************************************************************************)
(* The symbol store: the inputs are the symbol tables of SymTabs, cached   *)
(* by the constructor, and the addresses and names asked for.              *)
(***************************************************************************)
\* Trace._sym_for_address on one symbol file
Lookup(a) ==
    /\ sym_out' = [NoQuery EXCEPT !.op = "name", !.address = a,
                                  !.text = get_symbol_name(symbol_cache, a)]
    /\ UNCHANGED <<cf, map_vars, elf_vars, symtab, symbol_cache, address_cache, sigint_vars,
                   illg, reg_vars, emu_vars>>

\* ELFImage.get_symbol_range
SymbolRange(name) ==
    /\ sym_out' = get_symbol_range(
                      [symbol_cache |-> symbol_cache,
                       address_cache |-> address_cache], name)
    /\ UNCHANGED <<cf, map_vars, elf_vars, symtab, symbol_cache, address_cache, sigint_vars,
                   illg, reg_vars, emu_vars>>

InitSym ==
    /\ InitEmu
    /\ Elf_init
    /\ symtab \in SymTabs
    /\ symbol_cache = cache_symbols(NoCache, symtab, 1).symbol_cache
    /\ address_cache = cache_symbols(NoCache, symtab, 1).address_cache
    /\ sym_out = NoQuery
    /\ Sigint_init
    /\ illg = NoIllg
    /\ cf = CompactFlash_init(0)
    /\ Map_init

NextSym ==
    \/ \E a \in 0..(MaxSymAddr + MaxSymSize) : Lookup(a)
    \/ \E name \in SymNames : SymbolRange(name)

SpecSym == InitSym /\ [][NextSym]_vars

(***************************************************************************)
(* The user interrupt: SIGINT arrives at any point of the loop.            *)
(***************************************************************************)
\* a tick of host time passes
HostTick ==
    /\ wall_time < TicksPerSecond + MaxWallTime
    /\ wall_time' = wall_time + 1
    /\ UNCHANGED <<cf, map_vars, elf_vars, sym_vars, first_interrupt_time, interrupt_count,
                   presses, illg, reg_vars, emu_vars>>

\* Emulator._keyboard_interrupt; the break character handed to the console
\* device goes into a receive FIFO that is not part of this model
KeyboardInterrupt ==
    /\ Len(presses) < MaxPresses
    /\ presses' = Append(presses, wall_time)
    /\ LET k == keyboard_interrupt(first_interrupt_time, interrupt_count, wall_time)
           ts == IF k.exit THEN end_timeslice(Timeslice) ELSE Timeslice
       IN  /\ first_interrupt_time' = k.first
           /\ interrupt_count' = k.count
           /\ dead' = (dead \/ k.exit)
           /\ postmortem' = IF k.exit THEN "Exit due to user interrupt."
                            ELSE postmortem
           /\ cpu_initial' = ts.initial
           /\ cpu_remaining' = ts.remaining
    /\ UNCHANGED <<cf, map_vars, elf_vars, sym_vars, wall_time, illg, reg_vars, board_vars, exception_info, miss, resets,
                   elapsed, pc, cpu_vars, cycle_limit, callbacks, asserted,
                   irq_level, timer_deadline, ticker_on, tick_fired,
                   duart_vars, fired, early, disorder, owed, spurious,
                   rejected, cancelled, tick_epoch, tick_count>>

InitSigint == Init

NextSigint ==
    \/ HostTick
    \/ KeyboardInterrupt

SpecSigint == InitSigint /\ [][NextSigint]_vars

(***************************************************************************)
(* Illegal instructions.                                                   *)
(***************************************************************************)
\* the engine decodes an illegal opcode and calls the registered callback
CpuIllegal(insn, known, unset, n) ==
    /\ pc = "run" /\ cpu_remaining > 0
    /\ illg' = [insn |-> insn, known |-> known,
                result |-> illg_instr_callback(unset)]
    /\ cpu_remaining' = cpu_remaining - n
    /\ UNCHANGED <<cf, map_vars, elf_vars, sym_vars, sigint_vars, reg_vars, board_vars, exception_info, miss, resets,
                   elapsed, cpu_initial, pc, dead, postmortem,
                   cpu_vars, cycle_limit, callbacks, asserted,
                   irq_level, timer_deadline, ticker_on, tick_fired,
                   duart_vars, fired, early, disorder, owed, spurious,
                   rejected, cancelled, tick_epoch, tick_count>>

InitIllg == Init

NextIllg ==
    \/ \E n \in 1..MaxInstr : CpuInstr(n)
    \/ \E insn \in Insns, known \in BOOLEAN, unset \in {ILLG_OK, ILLG_ERROR},
          n \in 1..MaxInstr : CpuIllegal(insn, known, unset, n)
    \/ \E b \in BOOLEAN : QuantumEnd(b)
    \/ \E k \in Keys : FireOne(k)
    \/ TickDone

SpecIllg == InitIllg /\ [][NextIllg]_vars

(***************************************************************************)
(* The target "simple": a UART at IPL 2, registered first, and the Timer   *)
(* at IPL 6.  Console input reaches the UART between two quanta.           *)
(***************************************************************************)
MaxFifo == 2
SimpleCycleLimit == 4
ConsoleBytes == {65}
TimerVectors == {0, 64}
UartVectors == {0, 32}

\* an instruction that writes the Timer's VECTOR register
TimerWriteVector(value, n) ==
    /\ pc = "run" /\ cpu_remaining > 0
    /\ AccessDone(Timer_write_vector(Dev, value), n)
    /\ UNCHANGED <<tick_epoch, tick_count>>

\* an instruction that reads the UART's DR register
UartReadDR(n) ==
    /\ pc = "run" /\ cpu_remaining > 0
    /\ AccessDone(UART_read_dr(Dev), n)
    /\ UNCHANGED <<tick_epoch, tick_count>>

\* an instruction that writes the UART's CR register
UartWriteCR(value, n) ==
    /\ pc = "run" /\ cpu_remaining > 0
    /\ AccessDone(UART_write_cr(Dev, value), n)
    /\ UNCHANGED <<tick_epoch, tick_count>>

\* an instruction that writes the UART's VR register
UartWriteVR(value, n) ==
    /\ pc = "run" /\ cpu_remaining > 0
    /\ AccessDone(UART_write_vr(Dev, value), n)
    /\ UNCHANGED <<tick_epoch, tick_count>>

\* Device.console_handle_input: the console hands a buffer of received
\* bytes to the registered input handler
ConsoleInput(input) ==
    /\ pc = "tick"
    /\ Len(uart_rxfifo) + Len(input) <= MaxFifo
    /\ LET s == UART_handle_console_input(Dev, input) IN
       /\ uart_rxfifo' = s.rxfifo
       /\ asserted' = s.m.asserted
       /\ irq_level' = check_interrupts(s.m.asserted)
    /\ UNCHANGED <<devices, timer_vector, uart_cr, uart_vr, exception_info,
                   host_vars, reg_vars, miss, resets, elapsed, cpu_initial,
                   cpu_remaining, pc, dead, postmortem, cpu_vars,
                   cycle_limit, callbacks, timer_deadline, ticker_on,
                   tick_fired, duart_vars, fired, early, disorder, owed,
                   spurious, rejected, cancelled, tick_epoch, tick_count>>

InitSimple ==
    /\ elapsed = 0
    /\ cpu_initial = 0
    /\ cpu_remaining = 0
    /\ pc = "tick"
    /\ dead = FALSE
    /\ postmortem = "none"
    /\ cpl = ResetMask
    /\ ack = NoAck
    /\ Register_init
    /\ Host_init
    /\ devices = <<"uart", "timer">>
    /\ timer_vector = 0
    /\ uart_cr = 0
    /\ uart_vr = 0
    /\ uart_rxfifo = <<>>
    /\ cycle_limit = SimpleCycleLimit
    /\ callbacks = [k \in Keys |-> NoCb]
    /\ asserted = [d \in DeviceSet |-> 0]
    /\ irq_level = 0
    /\ timer_deadline = 0
    /\ ticker_on = FALSE
    /\ tick_fired = FALSE
    /\ duart_mode = MODE_TMR_XTAL16
    /\ duart_reload = 1
    /\ duart_epoch = 0
    /\ duart_cdl = FALSE
    /\ duart_isr = 0
    /\ duart_imr = 0
    /\ fired = NoFire
    /\ early = FALSE
    /\ disorder = FALSE
    /\ owed = {}
    /\ spurious = FALSE
    /\ rejected = FALSE
    /\ cancelled = {}
    /\ tick_epoch = 0
    /\ tick_count = 0

NextSimple ==
    \/ CpuInstr(1)
    \/ \E m \in {0, ResetMask} : CpuSetMask(m, 1)
    \/ \E v \in 0..MaxCount : TimerWrite(v, 1)
    \/ \E v \in TimerVectors : TimerWriteVector(v, 1)
    \/ UartReadDR(1)
    \/ \E v \in 0..(CR_RX_INTEN + CR_TX_INTEN) : UartWriteCR(v, 1)
    \/ \E v \in UartVectors : UartWriteVR(v, 1)
    \/ \E c \in ConsoleBytes : ConsoleInput(<<c>>)
    \/ CpuReset(0, 1)
    \/ \E b \in BOOLEAN : QuantumEnd(b)
    \/ \E k \in Keys : FireOne(k)
    \/ TickDone

SpecSimple == InitSimple /\ [][NextSimple]_vars

(***************************************************************************)
(* A machine whose only interrupting device is the ticker, as in the       *)
(* target 68katy.  The constructor ends with _start().                     *)
(***************************************************************************)
InitKaty ==
    /\ elapsed = 0
    /\ cpu_initial = 0
    /\ cpu_remaining = 0
    /\ pc = "tick"
    /\ dead = FALSE
    /\ postmortem = "none"
    /\ cpl = ResetMask
    /\ ack = NoAck
    /\ Register_init
    /\ Host_init
    /\ devices = <<"ticker">>
    /\ timer_vector = 0
    /\ uart_cr = 0
    /\ uart_vr = 0
    /\ uart_rxfifo = <<>>
    /\ cycle_limit = IrqCycleLimit
    /\ callbacks = [k \in Keys |->
                      IF k = "tick"
                      THEN [cycle |-> TickCycles, period |-> TickCycles]
                      ELSE NoCb]
    /\ asserted = [d \in DeviceSet |-> 0]
    /\ irq_level = 0
    /\ timer_deadline = 0
    /\ ticker_on = TRUE
    /\ tick_fired = FALSE
    /\ duart_mode = MODE_TMR_XTAL16
    /\ duart_reload = 1
    /\ duart_epoch = 0
    /\ duart_cdl = FALSE
    /\ duart_isr = 0
    /\ duart_imr = 0
    /\ fired = NoFire
    /\ early = FALSE
    /\ disorder = FALSE
    /\ owed = {}
    /\ spurious = FALSE
    /\ rejected = FALSE
    /\ cancelled = {}
    /\ tick_epoch = 0
    /\ tick_count = 0

NextKaty ==
    \/ \E n \in 1..MaxInstr : CpuInstr(n)
    \/ \E m \in {0, ResetMask}, n \in 1..MaxInstr : CpuSetMask(m, n)
    \/ \E v \in 0..1, n \in 1..MaxInstr : TickerAccess(v, n)
    \/ \E b \in BOOLEAN : QuantumEnd(b)
    \/ \E k \in Keys : FireOne(k)
    \/ TickDone

SpecKaty == InitKaty /\ [][NextKaty]_vars

(***************************************************************************)
(* The MC68681 machine with a guest that changes the state of the serial   *)
(* channels: a write of a channel's command register ends in               *)
(* Channel._update_isr with the channel's two status bits.                 *)
(***************************************************************************)
\* an instruction that writes the command register of a channel
DuartWriteCR(port, isr, n) ==
    /\ pc = "run" /\ cpu_remaining > 0
    /\ AccessDone(Duart_update_channel_isr(Dev, port, isr), n)
    /\ UNCHANGED <<tick_epoch, tick_count>>

InitChannel == InitDuart

NextChannel ==
    \/ CpuInstr(1)
    \/ \E port \in Ports, isr \in ChannelIsrs : DuartWriteCR(port, isr, 1)
    \/ \E v \in {0, IMR_COUNTER} : DuartWriteIMR(v, 1)
    \/ \E b \in BOOLEAN : QuantumEnd(b)
    \/ \E k \in Keys : FireOne(k)
    \/ TickDone

SpecChannel == InitChannel /\ [][NextChannel]_vars

(***************************************************************************)
(* A guest that drives the CompactFlash registers.  A handler that raises  *)
(* ends the run.                                                           *)
(***************************************************************************)
\* the handler's result c is stored
CfAccess(c) ==
    /\ cf' = c
    /\ UNCHANGED <<elf_vars, sym_vars, sigint_vars, illg, map_vars, reg_vars,
                   emu_vars>>

\* a write of the SECTOR_COUNT register
CfWriteSectorCount(value) ==
    /\ ~cf.raised
    /\ CfAccess([cf EXCEPT !.sector_count = value])

\* a write of the SECTOR_NUMBER register
CfWriteSectorNumber(value) ==
    /\ ~cf.raised
    /\ CfAccess([cf EXCEPT !.sector_number = value])

\* a write of the DRIVE/HEAD register
CfWriteDriveHead(value) ==
    /\ ~cf.raised
    /\ CfAccess([cf EXCEPT !.drive_head = value])

\* a write of the COMMAND register
CfWriteCommand(value) ==
    /\ ~cf.raised
    /\ CfAccess(CompactFlash_write_command(cf, value))

\* a read of the DATA8 or DATA16 register
CfReadData(width) ==
    /\ ~cf.raised
    /\ CfAccess(CompactFlash_io_read(cf, width))

\* a write of the DATA8 or DATA16 register, while the host has room for
\* the file
CfWriteData(width) ==
    /\ ~cf.raised
    /\ cf.pos + CompactFlash_count(width) <= MaxDiskBytes
    /\ CfAccess(CompactFlash_io_write(cf, width))

InitCf ==
    /\ InitEmu
    /\ Elf_init
    /\ Sym_init
    /\ Sigint_init
    /\ illg = NoIllg
    /\ Map_init
    /\ \E sectors \in 0..MaxSectors : cf = CompactFlash_init(sectors)

NextCf ==
    \/ \E v \in 0..MaxSectors : CfWriteSectorCount(v)
    \/ \E v \in 0..MaxSectors : CfWriteSectorNumber(v)
    \/ \E v \in {0, DRH_LBA_EN} : CfWriteDriveHead(v)
    \/ \E v \in {0, CMD_READ_SECTORS, CMD_WRITE_SECTORS, CMD_IDENTIFY_DEVICE} :
          CfWriteCommand(v)
    \/ \E w \in {MEM_SIZE_8, MEM_SIZE_16} : CfReadData(w)
    \/ \E w \in {MEM_SIZE_8, MEM_SIZE_16} : CfWriteData(w)

SpecCf == InitCf /\ [][NextCf]_vars

(***************************************************************************)
(* A device that maps its registers one after the other.                   *)
(***************************************************************************)
\* one turn of the loop of Device.map_registers
MapRegister(offset) ==
    /\ offset \notin dev_offsets
    /\ dev_offsets' = dev_offsets \cup {offset}
    /\ dev_size' = map_size(dev_size, offset)
    /\ UNCHANGED <<elf_vars, sym_vars, sigint_vars, illg, cf, reg_vars,
                   emu_vars>>

InitMap == Init

NextMap == \E offset \in Offsets : MapRegister(offset)

SpecMap == InitMap /\ [][NextMap]_vars

\* Emulator.fatal_info: the reason of fatal() comes before a captured
\* exception
fatal_info ==
    IF postmortem \notin {"none", "exception"} THEN postmortem
    ELSE IF exception_info THEN "exception"
    ELSE "no reason"

(***************************************************************************)
(* Properties.                                                             *)
(***************************************************************************)
TypeOK ==
    /\ elapsed \in Nat
    /\ pc \in {"tick", "run", "dead"}
    /\ dead \in BOOLEAN
    /\ \A k \in Keys : callbacks[k].cycle \in Nat /\ callbacks[k].period \in Nat
    /\ \A d \in DeviceSet : asserted[d] \in 0..7
    /\ irq_level \in 0..7
    /\ cpl \in 0..7
    /\ postmortem \in {"none", "exception", "illegal memory access",
                       "Exit due to user interrupt.",
                       "cycle limit exceeded", "BUS ERROR"}
    /\ ack.level \in 0..7 /\ ack.polled \subseteq DeviceSet

\* the devices, in registration order, that asserted the acknowledged level
\* and answered it with a vector of their own
Claimants ==
    SelectSeq(Devices, LAMBDA d : ack.ipl[d] = ack.level
                                  /\ ack.own[d] # IRQ_SPURIOUS)

\* C11: an interrupt acknowledge for level n asks only the devices whose
\* asserted IPL equals n, and returns the vector of the first of them in
\* registration order that answers, or the spurious sentinel when none does.
C11_AckPollsAssertedLevel ==
    ack.level # 0 =>
        /\ \A d \in ack.polled : ack.ipl[d] = ack.level
        /\ ack.vector = IF Claimants = <<>> THEN IRQ_SPURIOUS
                        ELSE ack.own[Head(Claimants)]

\* C12: whenever a device asserts or deasserts its IPL while a quantum runs
\* and the aggregated level is above zero and above the CPU's interrupt
\* mask, the running quantum is ended early.
C12_EarlyEndRequested ==
    [][(/\ pc = "run"
        /\ asserted' # asserted
        /\ irq_level' > 0
        /\ irq_level' > cpl') => cpu_remaining' <= 0]_vars

\* C13: for every descriptor r that has been registered, the lookup of
\* (r.address, r.size, r.access) returns exactly r, also when descriptors
\* differing from r only in direction or only in width are registered.
C13_LookupReturnsDescriptor ==
    \A r \in reg_made :
        Register_lookup(registers, r.address, r.size, r.access) = r

\* two descriptors share an address and a direction; two share an address
\* and a width
C13_Witness ==
    /\ \E r, q \in reg_made :
          r.address = q.address /\ r.access = q.access /\ r.size # q.size
    /\ \E r, q \in reg_made :
          r.address = q.address /\ r.size = q.size /\ r.access # q.access

\* the triple of the last constructor or access
LastKey(last) == <<last.address, last.size, last.access>>

\* C14: constructing a descriptor whose (address, size, access) triple is
\* already in the table fails with the conflict error and leaves the table
\* unchanged, so the earlier descriptor is still the one looked up.
C14_DuplicateRejected ==
    [][(reg_last'.op = "new" /\ LastKey(reg_last') \in DOMAIN registers) =>
          /\ reg_result' = "conflicts"
          /\ registers' = registers
          /\ reg_made' = reg_made]_vars

\* a constructor was refused for a triple the table still maps to the
\* first descriptor made with it
C14_Witness ==
    /\ reg_last.op = "new"
    /\ reg_result = "conflicts"
    /\ Register_lookup(registers, reg_last.address, reg_last.size,
                       reg_last.access).name = 1

\* a descriptor of a supported width and direction at an aligned address
WellFormed(r) ==
    /\ r.size \in {8, 16, 32}
    /\ r.access \in {MEM_READ, MEM_WRITE}
    /\ r.size = 16 => r.address % 2 = 0
    /\ r.size = 32 => r.address % 4 = 0

\* C15: every descriptor in the table has width 8, 16 or 32 and direction
\* read or write, with an even address for width 16 and an address divisible
\* by 4 for width 32; a constructor that violates one of these fails and adds
\* nothing to the table.
C15_DescriptorsWellFormed ==
    /\ [](\A k \in DOMAIN registers : WellFormed(registers[k]))
    /\ [][(reg_last'.op = "new" /\ ~WellFormed(reg_last')) =>
            /\ reg_result' \notin {"ok", "none"}
            /\ registers' = registers
            /\ reg_made' = reg_made]_vars

\* a 32-bit register is in the table and a constructor for a misaligned
\* 32-bit register was refused
C15_Witness ==
    /\ \E k \in DOMAIN registers : registers[k].size = 32
    /\ reg_last.op = "new"
    /\ reg_last.size = 32
    /\ reg_result = "not 4-aligned"

\* descriptors of one direction whose byte ranges
\* [address, address + size/8) intersect
Overlap(r, q) ==
    /\ r.access = q.access
    /\ r.address < q.address + q.size \div 8
    /\ q.address < r.address + r.size \div 8

\* C16 as stated: a constructor for a descriptor whose byte range overlaps
\* that of a registered descriptor of the same direction is rejected.
C16_OverlapRejected ==
    [][(/\ reg_last'.op = "new"
        /\ WellFormed(reg_last')
        /\ \E k \in DOMAIN registers : Overlap(reg_last', registers[k])) =>
          /\ reg_result' # "ok"
          /\ registers' = registers]_vars

\* C16: a constructor for a well-formed descriptor is rejected only when its
\* exact (address, size, access) triple is registered already; with a new
\* triple it is accepted, whether its bytes overlap a registered descriptor
\* of the same direction or it differs from one only by direction.
C16_OnlySameTripleRejected ==
    [][(/\ reg_last'.op = "new"
        /\ WellFormed(reg_last')
        /\ LastKey(reg_last') \notin DOMAIN registers) =>
          /\ reg_result' = "ok"
          /\ LastKey(reg_last') \in DOMAIN registers']_vars

\* the table holds a 16-bit register and an 8-bit register inside it, of one
\* direction, and a register that differs from one of them only by direction
C16_Witness ==
    /\ \E r, q \in reg_made :
          r # q /\ Overlap(r, q) /\ r.size = 16 /\ q.size = 8
          /\ {Register_key(r), Register_key(q)} \subseteq DOMAIN registers
    /\ \E r, q \in reg_made :
          r.address = q.address /\ r.size = q.size /\ r.access # q.access
          /\ {Register_key(r), Register_key(q)} \subseteq DOMAIN registers

\* C17: a CPU access to the address of a known register with a width or a
\* direction for which no descriptor is registered is a miss: the lookup
\* raises KeyError to the caller and no handler of any register is invoked.
C17_WrongWidthIsMiss ==
    [][(reg_last'.op = "access" /\ LastKey(reg_last') \notin DOMAIN registers)
          => (reg_called' = 0 /\ reg_result' = "KeyError")]_vars

\* an access missed although registers of another width and of the other
\* direction are known at its address
C17_Witness ==
    /\ reg_last.op = "access"
    /\ reg_result = "KeyError"
    /\ reg_called = 0
    /\ \E k \in DOMAIN registers :
          k[1] = reg_last.address /\ k[3] = reg_last.access
          /\ k[2] # reg_last.size
    /\ \E k \in DOMAIN registers :
          k[1] = reg_last.address /\ k[2] = reg_last.size
          /\ k[3] # reg_last.access

\* C18: an access to unmapped space never terminates the emulator: the
\* fatal flag is not set by the access, whether it misses in the device
\* space or in the memory map.
C18_MissNotFatal ==
    [][miss' # miss => dead' = dead]_vars

\* C19: the value of current_cycle never decreases from one observation to
\* the next: inside a quantum, between quanta, and across the boundary into
\* the next quantum, for as long as the emulation is alive.
C19_ClockMonotone ==
    [][~dead' => current_cycle' >= current_cycle]_vars

DeadlineGaps == {callbacks[k].cycle - elapsed : k \in Pending(callbacks)}

\* a quantum is being requested from the CPU
QuantumStart == pc = "tick" /\ pc' = "run"

C22_HandlerErrorIsFatal ==
    /\ [](dead => pc # "tick" /\ (pc = "run" => cpu_remaining <= 0))
    /\ [][dead => dead']_vars
    /\ [][(pc = "run" /\ (rejected' \/ postmortem' # postmortem)) =>
            dead' /\ cpu_remaining' <= 0]_vars

\* a register handler has just raised inside a quantum
C22_Witness ==
    /\ pc = "run"
    /\ dead
    /\ rejected
    /\ postmortem = "exception"
    /\ cpu_remaining <= 0

\* s is an initial part of t
IsPrefix(s, t) == Len(s) <= Len(t) /\ s = SubSeq(t, 1, Len(s))

\* C23: a reset calls the reset() of every registered device in
\* registration order; when one of them raises, the calls stop there, the
\* fatal flag is set with the captured exception and the run terminates
\* without another quantum.
C23_ResetInRegistrationOrder ==
    resets.done # <<>> =>
        /\ IsPrefix(resets.done, Devices)
        /\ ~resets.raised => resets.done = Devices
        /\ resets.raised =>
              /\ dead
              /\ postmortem # "none"
              /\ pc # "tick"
              /\ pc = "run" => cpu_remaining <= 0

\* a RESET instruction has reset the three devices and the run goes on
C23_Witness ==
    /\ resets = [done |-> Devices, raised |-> FALSE]
    /\ ~dead
    /\ pc = "tick"
    /\ ~ticker_on
    /\ callbacks["counter/timer"] # NoCb

\* the Timer as its constructor leaves it
TimerPowerOn(s) ==
    /\ s.deadline = 0
    /\ s.m.asserted["timer"] = 0
    /\ s.m.cbs["count"] = NoCb

\* the ticker as its constructor leaves it: started, nothing fired
TickerPowerOn(s) ==
    /\ s.on
    /\ ~s.tfired
    /\ s.m.asserted["ticker"] = 0
    /\ s.m.cbs["tick"] = [cycle |-> current_cycle + TickCycles,
                          period |-> TickCycles]

\* C24: in every state the emulation reaches, reset() returns the Timer and
\* the ticker to the state they had right after construction, asserted IPL
\* and pending callbacks included, and a second reset() changes nothing.
C24_ResetRestoresPowerOn ==
    /\ TimerPowerOn(Timer_reset(Dev))
    /\ Timer_reset(Timer_reset(Dev)) = Timer_reset(Dev)
    /\ TickerPowerOn(NE555_reset(Dev))
    /\ NE555_reset(NE555_reset(Dev)) = NE555_reset(Dev)

\* C1: handlers are invoked in non-decreasing order of the target cycle
\* they were fired for, over the whole run.
C1_Monotonic == ~disorder

NoOverdue(cbs, now) == \A k \in Pending(cbs) : cbs[k].cycle > now

quantum_end == elapsed + cpu_initial

C6_ExactlyOncePerPeriod ==
    (pc = "run" /\ cpu_remaining = cpu_initial /\ callbacks["tick"].cycle # 0)
        => tick_count = (current_cycle - tick_epoch) \div TickCycles

MaxIPL(asrt) ==
    CHOOSE v \in {asrt[d] : d \in DeviceSet} \cup {0} :
        \A d \in DeviceSet : asrt[d] <= v

Relocations32(img) ==
    {<<i, j>> \in all_relocs(img) :
        LET r == img.sections[i].relocs[j]
            t == img.sections[img.sections[i].info]
        IN  /\ r.rela /\ r.type = R_68K_32 /\ t.alloc
            /\ t.addr <= r.offset /\ r.offset + 4 <= t.addr + Len(t.data)}

\* C25: after a relocation to load base D that returned, every R_68K_32
\* relocation at an address a inside a loadable section finds at a the
\* original big-endian word plus D, modulo 2^32, in four bytes of 0..255.
C25_RelocatedWordIsOriginalPlusBase ==
    elf_out.status = "ok" =>
        \A x \in Relocations32(elf) :
            LET r == elf.sections[x[1]].relocs[x[2]]
                t == elf.sections[elf.sections[x[1]].info]
                o == r.offset - t.addr
                placed == elf_out.sections[t.addr + elf_out.base]
            IN  /\ SubSeq(placed, o + 1, o + 4)
                       = Add32(SubSeq(t.data, o + 1, o + 4), elf_out.base)
                /\ \A k \in 1..4 : placed[o + k] \in 0..255

Loadable(img) == {i \in 1..Len(img.sections) : img.sections[i].alloc}

Sized(tab) == {i \in DOMAIN tab : cached_type(tab[i].type) /\ tab[i].size > 0}

\* the text returned names the symbol at this offset
Yields(text, name, offset) ==
    \E k \in DOMAIN text : text[k].name = name /\ text[k].offset = offset

\* C28: for every cached symbol with address a and size n > 0, the lookup of a
\* yields its name and the lookup of a + n - 1 yields its name with the offset,
\* aliases at one address included, whose names are all returned.
C28_LookupYieldsEverySymbol ==
    sym_out.op = "name" =>
        \A i \in Sized(symtab) :
            /\ sym_out.address = symtab[i].addr
                   => Yields(sym_out.text, symtab[i].name, 0)
            /\ sym_out.address = symtab[i].addr + symtab[i].size - 1
                   => Yields(sym_out.text, symtab[i].name, symtab[i].size - 1)

\* the emulation was ended by the user interrupt
Forced == dead /\ postmortem = "Exit due to user interrupt."

\* some three presses lie less than a second apart
ThreeWithinSecond ==
    \E i, j, k \in DOMAIN presses :
        i < j /\ j < k /\ presses[k] - presses[i] < TicksPerSecond

RECURSIVE Opener(_)
\* the press that opened the counting window press k falls into: the first
\* press, and every press a second or more after the opener before it
Opener(k) ==
    IF k = 1 THEN 1
    ELSE IF presses[k] - presses[Opener(k - 1)] >= TicksPerSecond THEN k
    ELSE Opener(k - 1)

C30_UnknownReturnsError ==
    illg.insn # "none" =>
        /\ ~recognised(illg.insn, illg.known) => illg.result = ILLG_ERROR
        /\ illg.result = ILLG_OK => recognised(illg.insn, illg.known)

\* C31: when a device handler raised, the diagnostic reported once the loop
\* has exited is the captured exception, whatever else ended the run in the
\* same loop iteration.
C31_HandlerExceptionReported ==
    (pc = "dead" /\ exception_info) => fatal_info = "exception"

\* the bytes of loadable section i that an applied relocation covers: the four
\* bytes at each R_68K_32 entry whose target section is loadable
Covered(img, i) ==
    {k \in 1..Len(img.sections[i].data) :
        \E x \in all_relocs(img) :
            LET r == img.sections[x[1]].relocs[x[2]]
                o == r.offset - img.sections[i].addr
            IN  /\ r.type = R_68K_32
                /\ img.sections[img.sections[x[1]].info].alloc
                /\ k \in (o + 1)..(o + 4)}

\* C32: a relocation that returned has changed no byte of a loadable section
\* but the four bytes at each R_68K_32 entry whose target section is loadable;
\* entries of other types and entries against sections that are not loaded
\* change nothing.
C32_RelocationFrame ==
    elf_out.status = "ok" =>
        \A i \in Loadable(elf) :
            \A k \in 1..Len(elf.sections[i].data) :
                k \notin Covered(elf, i) =>
                    elf_out.sections[elf.sections[i].addr + elf_out.base][k]
                        = elf.sections[i].data[k]

\* an image returned although the file has an R_68K_32 entry against a
\* section that is not loaded, at an offset that is an address of a loaded one
C32_Witness ==
    /\ elf_out.status = "ok"
    /\ elf_out.base # 0
    /\ Loadable(elf) # {}
    /\ \E x \in all_relocs(elf) :
           /\ elf.sections[x[1]].relocs[x[2]].type = R_68K_32
           /\ ~elf.sections[elf.sections[x[1]].info].alloc

\* the last interrupt acknowledge was for the Timer's level while the Timer
\* asserted it
TimerAcked == ack.level = TimerIPL /\ ack.ipl["timer"] = TimerIPL

\* C33: once a written countdown has expired the Timer holds its IPL until
\* the interrupt acknowledge; the acknowledge reaches the Timer's
\* get_vector, which deasserts the IPL and returns the VECTOR register when
\* that is above 0 and the auto-vector sentinel otherwise, so one countdown
\* is acknowledged once however long the level was masked; writing 0 to
\* COUNT cancels the pending callback and the asserted IPL.
C33_TimerLatch ==
    /\ [](TimerAcked => /\ "timer" \in ack.polled
                        /\ ack.vector = ack.own["timer"])
    /\ [](LET s == Timer_write_countdown(Dev, 0) IN
          s.m.asserted["timer"] = 0 /\ s.m.cbs["count"] = NoCb)
    /\ [][(/\ cpl < TimerIPL
           /\ cpl' = TimerIPL
           /\ asserted["timer"] = TimerIPL) => asserted'["timer"] = 0]_vars

\* C34: the UART's asserted IPL is non-zero exactly when CR has TX_INTEN
\* set, or CR has RX_INTEN set and the receive FIFO holds a byte; so reading
\* DR until the FIFO is empty with only RX_INTEN set deasserts the IPL.
C34_UartLevelFollowsCR ==
    (asserted["uart"] # 0) <=>
        \/ BitAnd(uart_cr, CR_TX_INTEN) # 0
        \/ BitAnd(uart_cr, CR_RX_INTEN) # 0 /\ Len(uart_rxfifo) > 0

\* C35: once the ticker's interrupt has been acknowledged its asserted IPL
\* is 0 until the next tick fires, so the IPL is asserted only while a tick
\* waits for its acknowledge, and no acknowledge of the ticker's level is
\* answered with the spurious sentinel.
C35_TickAcknowledgedOnce ==
    /\ asserted["ticker"] # 0 => tick_fired
    /\ (ack.level = TickerIPL /\ ack.ipl["ticker"] = TickerIPL) =>
           ack.vector # IRQ_SPURIOUS

\* the bits of the ISR that belong to a channel
ChannelBits(port) == IF port = "A" THEN 3 ELSE 48

\* C36: update_channel_isr(port, isr) replaces the two ISR bits of that
\* channel (bits 0-1 for port A, bits 4-5 for port B) with the new value
\* and leaves every other bit of the ISR as it was, the counter/timer-ready
\* bit 0x08 and the other channel's bits included.
C36_ChannelIsrFrame ==
    \A port \in Ports, isr \in ChannelIsrs :
        LET new == Duart_update_channel_isr(Dev, port, isr).isr
            own == ChannelBits(port)
        IN  /\ BitAnd(new, own) = isr * (own \div 3)
            /\ BitAnd(new, 255 - own) = BitAnd(duart_isr, 255 - own)

\* C37: with a reload value of at least 1, the deadline the MC68681 hands to
\* callback_at on a read of STARTCC or of STOPCC lies after the current
\* cycle, whatever the cycle at which STARTCC was last read, so neither read
\* is refused by the scheduler for a deadline in the past.
C37_DeadlineInFuture ==
    (pc = "run" /\ cpu_remaining > 0 /\ duart_reload >= 1) =>
        /\ ~Duart_read_startcc(Dev).m.rej
        /\ ~Duart_read_stopcc(Dev).m.rej

\* C38: a READ SECTORS or WRITE SECTORS command whose range ends after the
\* backing file sets ERR and transfers nothing: DRQ stays clear and the data
\* accesses that follow neither read nor write the file; bytes_remaining is
\* never negative and the file is accessed only at offsets it holds.
C38_BeyondEndTransfersNothing ==
    /\ cf.beyond => /\ BitAnd(cf.status, STATUS_ERR) # 0
                    /\ BitAnd(cf.status, STATUS_DRQ) = 0
                    /\ ~cf.io
    /\ cf.bytes_remaining >= 0
    /\ ~cf.outside
    /\ cf.length = cf.file_size

\* C39: every register offset a device has mapped is below the device's
\* size, so the aperture handed to the address map covers every register,
\* the one at offset 0 and the ones at a multiple of the page size included.
C39_OffsetsBelowSize == \A offset \in dev_offsets : offset < dev_size

\* hints RootDevice.tick may get from a device: none, negative, small, the
\* quantum, more than the quantum, the default deadline and beyond
Hints == {-1, 0, 1, Quantum, Quantum + 1, TickDeadline, TickDeadline + 1}

\* C40: the cycle count requested for a quantum is in 1..default quantum
\* whatever the devices hint, and with a finite cycle limit and quanta that
\* retire at least one cycle the run loop eventually exits.
C40_QuantumInRangeAndRunEnds ==
    /\ [](\A hint \in Hints :
            cycles_to_run(RootDevice_tick(hint)) \in 1..Quantum)
    /\ [][QuantumStart => cpu_initial' \in 1..Quantum]_vars
    /\ <>(pc = "dead")

\* the loop has exited on the cycle limit after more than one quantum
C40_Witness ==
    /\ pc = "dead"
    /\ postmortem = "cycle limit exceeded"
    /\ elapsed > cycle_limit
    /\ fired # NoFire

====
